---- MODULE Spec2Model ----
(***************************************************************************)
(* A model of the loop tracer (frange) and of the Loop node of csdl_alpha: *)
(* the two-pass discovery of loop-carried state, the Loop's sequential     *)
(* interpretation (compute_inline) and its scan lowering (compute_jax).    *)
(*                                                                         *)
(* A host loop body is a sequence of statements over the host names a, b   *)
(* and the iteration variable i.  Each statement either creates an         *)
(* Operation (Add, Mult) whose output the host name is rebound to, or      *)
(* rebinds a host name to the Variable another host name is bound to.      *)
(* Variables are numbered in creation order; val[v] is Variable.value.     *)
(***************************************************************************)
EXTENDS Integers, Sequences, FiniteSets, TLC

\* ---- bounds of the model ------------------------------------------------
MaxBody == 2      \* statements in one pass of the host loop body
MaxL == 2         \* iteration values of the frange
MaxVal == 2       \* initial values of the host Variables a and b
MaxLower == 0     \* lower bound of the frange
ValueCap == 30000 \* values are counted up to ValueCap
MaxGraphs == 3    \* Graphs in one recorder's graph tree
MaxBound == 2     \* arg1 and arg2 of a frange
MaxIncrement == 2 \* increment of a frange
MaxValsLen == 2   \* length of a list given as vals
MaxIter == 3      \* max_iter of a BracketedSearch
MaxStateVal == 1  \* initial value of a GaussSeidel state
MaxReads == 2     \* get_stacked calls on one Loop
MaxOperand == 1   \* magnitude of an element of an operand of Mult
MaxReverse == 3   \* iterations of a Loop that is differentiated
MaxSeed == 2      \* cotangent of a seeded output of the Loop
MaxFranges == 3   \* frange objects the host constructs
MaxDepth == 2     \* for statements inside one another
MaxAgain == 1     \* __next__ calls on a frange after its StopIteration
MaxSubgraphs == 2 \* Graphs in the graph tree of a recorder with namespaces
MaxScopes == 2    \* Namespaces in one recorder's namespace tree
MaxUnder == 1     \* how far below zero Recorder.hierarchy is followed
MaxRegistered == 2 \* nodes given a namespace
MaxAddState == 2  \* add_state calls on one solver

\* ---- small helpers ------------------------------------------------------
Range(s) == {s[k] : k \in DOMAIN s}

\* list.index: the position of the first occurrence
IndexOf(s, x) == CHOOSE k \in DOMAIN s : s[k] = x /\ \A j \in 1..(k-1) : s[j] # x

\* s[:-n] for 0 < n <= len(s)
DropLast(s, n) == SubSeq(s, 1, Len(s) - n)

RECURSIVE Zeros(_)
Zeros(n) == IF n = 0 THEN <<>> ELSE Append(Zeros(n-1), 0)

\* ---- host programs ------------------------------------------------------
HostNames == {"a", "b"}
OtherName(h) == IF h = "a" THEN "b" ELSE "a"

\* right-hand sides: a + b, b * i, and the other host name
Stmts ==
    {[dst |-> d, kind |-> "Add", l |-> "a", r |-> "b"] : d \in HostNames}
    \cup {[dst |-> d, kind |-> "Mult", l |-> "b", r |-> "i"] : d \in HostNames}
    \cup {[dst |-> d, kind |-> "Var", l |-> OtherName(d), r |-> OtherName(d)] : d \in HostNames}

Programs == UNION {[1..n -> Stmts] : n \in 0..MaxBody}

OtherKind(k) == IF k = "Add" THEN "Mult" ELSE IF k = "Mult" THEN "Add" ELSE k

\* What the host body does in its second pass: the same statements, or (a
\* body that branches on host state) the first statement with another
\* operation type, the last statement left out, or one more statement.
Variants(body) ==
    {body, Append(body, [dst |-> "b", kind |-> "Add", l |-> "a", r |-> "b"])}
    \cup (IF body = <<>> THEN {}
          ELSE {[body EXCEPT ![1].kind = OtherKind(body[1].kind)],
                DropLast(body, 1)})

\* ---- Variables and the body Graph ---------------------------------------
IterVar == 3                      \* the IterationVariable (after a and b)
InitEnv == [h \in HostNames |-> IF h = "a" THEN 1 ELSE 2]
ErrorMarker == 0                  \* 'IF YOU SEE THIS: ERROR'
BodyShape == <<1>>                \* shape of a scalar Variable

VarNode(v) == [k |-> "var", ty |-> "", ins |-> <<>>, out |-> v]
OpNode(ty, ins, out) == [k |-> "op", ty |-> ty, ins |-> ins, out |-> out]
IsOp(node) == node.k = "op"
IsVar(node) == node.k = "var"

\* Graph.in_degree of a Variable: the Operations of the graph producing it
InDegree(nt, v) == Cardinality({k \in DOMAIN nt : IsOp(nt[k]) /\ nt[k].out = v})

\* Graph._delete_nodes
DeleteNodes(nt, S) == SelectSeq(nt, LAMBDA node : node \notin S)
DeleteVars(nt, S) == SelectSeq(nt, LAMBDA node : ~(IsVar(node) /\ node.out \in S))

OpsOf(nt) == SelectSeq(nt, IsOp)

\* Recorder._add_edge(node_from, op) on a graph that admits missing
\* Variables: an unregistered Variable becomes a node and a boundary input.
AddEdge(g, from) ==
    IF VarNode(from) \notin Range(g.nt)
    THEN [g EXCEPT !.nt = Append(g.nt, VarNode(from)),
                   !.gin = IF from \in Range(g.gin) THEN g.gin ELSE Append(g.gin, from)]
    ELSE g

\* ---- the operation catalog ----------------------------------------------
MultComputeInline(x, y) == x * y
AddComputeInline(x, y) == x + y
Capped(v) == IF v > ValueCap THEN ValueCap ELSE v
OpValue(ty, x, y) ==
    Capped(IF ty = "Mult" THEN MultComputeInline(x, y) ELSE AddComputeInline(x, y))

\* ---- one pass of the host body ------------------------------------------
Lookup(env, name) == IF name = "i" THEN IterVar ELSE env[name]

\* h = [env, val, shape, nt, gin].  An Operation is registered, its inputs are
\* connected (admitting the missing ones), its output Variable is created
\* with the value computed inline, and the host name is rebound to it.
ExecStmt(h, st) ==
    IF st.kind = "Var"
    THEN [h EXCEPT !.env[st.dst] = h.env[st.l]]
    ELSE LET x == Lookup(h.env, st.l)
             y == Lookup(h.env, st.r)
             out == Len(h.val) + 1
             g0 == [h EXCEPT !.nt = Append(h.nt, OpNode(st.kind, <<x, y>>, out))]
             g2 == AddEdge(AddEdge(g0, x), y)
         IN [g2 EXCEPT !.nt = Append(g2.nt, VarNode(out)),
                       !.val = Append(h.val, OpValue(st.kind, h.val[x], h.val[y])),
                       !.shape = Append(h.shape, h.shape[x]),
                       !.env[st.dst] = out]

RECURSIVE RunBody(_, _)
RunBody(h, body) ==
    IF body = <<>> THEN h ELSE RunBody(ExecStmt(h, Head(body)), Tail(body))

\* ---- frange.post_iteration_one / post_iteration_two ---------------------
\* for node in node_table: if Operation: every input of in-degree 0
RECURSIVE BoundaryInputs(_, _)
BoundaryInputs(nt, ops) ==
    IF ops = <<>> THEN <<>>
    ELSE SelectSeq(Head(ops).ins, LAMBDA v : InDegree(nt, v) = 0)
         \o BoundaryInputs(nt, Tail(ops))

OpOutputs(ops) == [k \in DOMAIN ops |-> ops[k].out]
OpTypes(ops) == [k \in DOMAIN ops |-> ops[k].ty]

\* post_iteration_one: the inputs and outputs of pass 1, the other Variables
\* of pass 1 (to be removed later), and the graph without pass 1's Operations
PostIterationOne(nt) ==
    LET ops == OpsOf(nt)
        ins == BoundaryInputs(nt, ops)
    IN [iter1_inputs |-> ins,
        iter1_outputs |-> OpOutputs(ops),
        iter1_non_inputs |->
            ({nt[k].out : k \in {j \in DOMAIN nt : IsVar(nt[j])}} \ Range(ins)) \ {IterVar},
        nt |-> DeleteNodes(nt, Range(ops))]

\* frange._check_ops_and_shapes: TRUE is its ValueError.  __next__ never
\* calls it and never records self.ops or self.shapes.
CheckOpsAndShapes(ops, shapes, self_ops, self_shapes) ==
    ops # self_ops \/ shapes # self_shapes

\* (mutant) the check of the output counts left out
CountsChangedInputsOnly(in1, in2, out1, out2) == Len(in1) # Len(in2)

\* the input counts or the output counts of the two passes differ
CountsChanged(in1, in2, out1, out2) == Len(in1) # Len(in2) \/ Len(out1) # Len(out2)

\* a positional pair of inputs that stands for loop-carried state
IsFeedback(input1, input2, out1) == input1 # input2 /\ input2 \in Range(out1)

\* (mutant) the triple closed with the pass-1 output, which is input2 itself
LoopVarFromIter1(input1, input2, out1, out2) ==
    <<input2, input1, out1[IndexOf(out1, input2)]>>

\* loop_var = (input2, input1, output2), output2 the pass-2 output at the
\* position input2 has among the pass-1 outputs
LoopVar(input1, input2, out1, out2) ==
    <<input2, input1, out2[IndexOf(out1, input2)]>>

\* (mutant) every triple appended, also one already in the list
AddLoopVarAlways(loop_vars, loop_var) == Append(loop_vars, loop_var)

\* if loop_var in loop_vars: continue / loop_vars.append(loop_var)
AddLoopVar(loop_vars, loop_var) ==
    IF loop_var \in Range(loop_vars) THEN loop_vars ELSE Append(loop_vars, loop_var)

\* the body of "for input1, input2 in zip(iter1_inputs, iter2_inputs)"
RECURSIVE FormFeedback(_, _, _, _, _, _)
FormFeedback(acc, k, in1, in2, out1, out2) ==
    IF k > Len(in1) \/ k > Len(in2) THEN acc
    ELSE LET input1 == in1[k]
             input2 == in2[k]
             next ==
                IF IsFeedback(input1, input2, out1)
                THEN [loop_vars |-> AddLoopVar(acc.loop_vars, LoopVar(input1, input2, out1, out2)),
                      nt |-> IF VarNode(input1) \in Range(acc.nt) /\ input1 \notin Range(in2)
                             THEN DeleteVars(acc.nt, {input1}) ELSE acc.nt,
                      non_inputs |-> acc.non_inputs \ {input2}]
                ELSE acc
         IN FormFeedback(next, k + 1, in1, in2, out1, out2)

\* post_iteration_two up to the exit of the subgraph: ok = FALSE is the
\* ValueError of the count checks
PostIterationTwo(nt, in1, out1, non1) ==
    LET ops == OpsOf(nt)
        in2 == BoundaryInputs(nt, ops)
        out2 == OpOutputs(ops)
    IN IF CountsChanged(in1, in2, out1, out2)
       THEN [ok |-> FALSE, iter2_inputs |-> in2, iter2_outputs |-> out2,
             loop_vars |-> <<>>, nt |-> nt, non_inputs |-> non1]
       ELSE LET fb == FormFeedback([loop_vars |-> <<>>, nt |-> nt, non_inputs |-> non1],
                                   1, in1, in2, out1, out2)
            IN [ok |-> TRUE, iter2_inputs |-> in2, iter2_outputs |-> out2,
                loop_vars |-> fb.loop_vars,
                nt |-> DeleteVars(fb.nt, fb.non_inputs),
                non_inputs |-> fb.non_inputs]

\* ---- the Loop operation -------------------------------------------------
\* build_stacked_variable: shape (num_iter,) + feedback_var.shape
StackedShape(shape_of_var, num_iter) == <<num_iter>> \o shape_of_var

\* Loop.__init__: loop_var_lookup[loop_vars[i][2]] = outputs[-(n - i)]
RECURSIVE LoopVarLookup(_, _, _)
LoopVarLookup(lvs, outputs, k) ==
    IF k = 0 THEN [x \in {} |-> 0]
    ELSE LET prev == LoopVarLookup(lvs, outputs, k - 1)
             key == lvs[k][3]
             stacked == outputs[Len(outputs) - Len(lvs) + k]
         IN [x \in (DOMAIN prev) \cup {key} |-> IF x = key THEN stacked ELSE prev[x]]

LoopInit(inputs, outputs, graph, lvals, iter_vars, lvs, lazy) ==
    [inputs |-> inputs, num_inputs |-> Len(inputs), outputs |-> outputs,
     graph |-> graph, vals |-> lvals, iter_vars |-> iter_vars,
     loop_vars |-> lvs, length |-> Len(lvals[1]),
     inline_lazy_stack |-> lazy,
     num_loop_vars |-> Len(lvs),
     loop_var_lookup |-> LoopVarLookup(lvs, outputs, Len(lvs))]

\* Loop.get_stacked
GetStacked(loop, variable) == loop.loop_var_lookup[variable]

\* the list iter2_outputs after a marker was appended per loop_var
MarkedOutputs(out2, lvs) == out2 \o [k \in 1..Len(lvs) |-> ErrorMarker]

\* final_iter_outputs = iter2_outputs[:-len(loop_vars)] (all when there are none)
FinalIterOutputs(marked, lvs) ==
    IF Len(lvs) = 0 THEN marked ELSE DropLast(marked, Len(lvs))

\* graph.inputs restricted to the Variables still in the node table
NewInputs(gin, nt) == SelectSeq(gin, LAMBDA v : VarNode(v) \in Range(nt))

\* LoopBuilder.finalize: inputs = the remaining boundary inputs and the
\* external_initial of each triple; outputs = the pass-through outputs and
\* one new stacked Variable per triple (numbered nv+1 .. nv+n)
BuilderFinalize(nt, gin, marked, lvs, lvals, nv, lazy) ==
    LoopInit(NewInputs(gin, nt) \o [k \in 1..Len(lvs) |-> lvs[k][2]],
             FinalIterOutputs(marked, lvs) \o [k \in 1..Len(lvs) |-> nv + k],
             nt, lvals, <<IterVar>>, lvs, lazy)

\* ---- Loop.compute_inline ------------------------------------------------
\* for loop_var in loop_vars: loop_var[to].value = loop_var[from].value
RECURSIVE AssignAll(_, _, _, _)
AssignAll(v, lvs, to, from) ==
    IF lvs = <<>> THEN v
    ELSE AssignAll([v EXCEPT ![Head(lvs)[to]] = v[Head(lvs)[from]]], Tail(lvs), to, from)

\* (mutant) the feedback inputs are not seeded again
SeedFeedbackNever(v, lvs, iter) == v

\* "if i == 0: loop_var[0].value = loop_var[1].value"
SeedFeedback(v, lvs, iter) == IF iter = 0 THEN AssignAll(v, lvs, 1, 2) ELSE v

\* "iter_var.set_value(val[i])"
BindIterVars(v, iter_vars, lvals, iter) ==
    [x \in DOMAIN v |->
        IF \E n \in DOMAIN iter_vars : iter_vars[n] = x
        THEN lvals[CHOOSE n \in DOMAIN iter_vars : iter_vars[n] = x][iter + 1]
        ELSE v[x]]

\* "outputs[-(n - ii)].value[i] = loop_vars[ii][0].value"
WriteStack(st, v, lvs, iter) ==
    [ii \in DOMAIN st |-> [st[ii] EXCEPT ![iter + 1] = v[lvs[ii][1]]]]

\* Graph.execute_inline: every Operation of the graph in node order
RECURSIVE ExecuteInline(_, _)
ExecuteInline(ops, v) ==
    IF ops = <<>> THEN v
    ELSE LET o == Head(ops)
         IN ExecuteInline(Tail(ops),
                [v EXCEPT ![o.out] = OpValue(o.ty, v[o.ins[1]], v[o.ins[2]])])

\* "for loop_var in loop_vars: loop_var[0].value = loop_var[2].value"
UpdateFeedback(v, lvs) == AssignAll(v, lvs, 1, 3)

\* ---- Loop.compute_jax ---------------------------------------------------
NoVal == 0 - 1     \* a Variable the backend function was given no value for

TrueOutputs(loop) ==
    IF Len(loop.loop_vars) > 0 THEN DropLast(loop.outputs, Len(loop.loop_vars))
    ELSE loop.outputs

FeedbackInputIndices(loop) ==
    [k \in DOMAIN loop.loop_vars |-> IndexOf(loop.inputs, loop.loop_vars[k][2])]
FeedbackGraphInputs(loop) ==
    [k \in DOMAIN loop.loop_vars |-> loop.loop_vars[k][1]]
FeedbackOutputIndices(loop) ==
    [k \in DOMAIN loop.loop_vars |-> IndexOf(TrueOutputs(loop), loop.loop_vars[k][3])]

\* the positions of the Loop's inputs that are nodes of the body graph
InGraphPositions(loop) ==
    SelectSeq([p \in DOMAIN loop.inputs |-> p],
              LAMBDA p : VarNode(loop.inputs[p]) \in Range(loop.graph))

RECURSIVE JaxBind(_, _, _)
JaxBind(e, ids, vs) ==
    IF ids = <<>> THEN e
    ELSE JaxBind([e EXCEPT ![Head(ids)] = Head(vs)], Tail(ids), Tail(vs))

\* create_jax_function(graph, outputs, inputs) applied to args
CreateJaxFunction(graph, outs, ins, args, nv) ==
    LET e == ExecuteInline(OpsOf(graph), JaxBind([x \in 1..nv |-> NoVal], ins, args))
    IN [k \in DOMAIN outs |-> e[outs[k]]]

\* (mutant) the values after the body are stacked instead of those before
LoopFunctionStacksAfter(loop, inputs, carry, x, nv) ==
    LET pos == InGraphPositions(loop)
        foi == FeedbackOutputIndices(loop)
        graph_inputs == [k \in DOMAIN pos |-> loop.inputs[pos[k]]] \o FeedbackGraphInputs(loop)
        fn_inputs == [k \in DOMAIN pos |-> inputs[pos[k]]]
                     \o [k \in DOMAIN foi |-> carry[foi[k]]]
                     \o [k \in DOMAIN loop.iter_vars |-> x[k]]
        new == CreateJaxFunction(loop.graph, TrueOutputs(loop),
                                 graph_inputs \o loop.iter_vars, fn_inputs, nv)
    IN [carry |-> new, y |-> [k \in DOMAIN foi |-> new[foi[k]]]]

\* loop_function(carry, x): the new carry and the entries to be stacked
LoopFunction(loop, inputs, carry, x, nv) ==
    LET pos == InGraphPositions(loop)
        foi == FeedbackOutputIndices(loop)
        graph_inputs == [k \in DOMAIN pos |-> loop.inputs[pos[k]]] \o FeedbackGraphInputs(loop)
        fn_inputs == [k \in DOMAIN pos |-> inputs[pos[k]]]
                     \o [k \in DOMAIN foi |-> carry[foi[k]]]
                     \o [k \in DOMAIN loop.iter_vars |-> x[k]]
    IN [carry |-> CreateJaxFunction(loop.graph, TrueOutputs(loop),
                                    graph_inputs \o loop.iter_vars, fn_inputs, nv),
        y |-> [k \in DOMAIN foi |-> carry[foi[k]]]]

\* lax.scan(loop_function, carry, xs)
RECURSIVE Scan(_, _, _, _, _)
Scan(loop, inputs, carry, xs, nv) ==
    IF xs = <<>> THEN [carry |-> carry, ys |-> <<>>]
    ELSE LET r == LoopFunction(loop, inputs, carry, Head(xs), nv)
             rest == Scan(loop, inputs, r.carry, Tail(xs), nv)
         IN [carry |-> rest.carry, ys |-> <<r.y>> \o rest.ys]

\* "carry[ind] = inputs[feedback_input_indices[i]]" over the zero carry
RECURSIVE InitCarry(_, _, _, _, _)
InitCarry(carry, foi, fii, inputs, k) ==
    IF k > Len(foi) THEN carry
    ELSE InitCarry([carry EXCEPT ![foi[k]] = inputs[fii[k]]], foi, fii, inputs, k + 1)

\* compute_jax(*inputs): the final carry and one stacked history per loop_var
ComputeJax(loop, inputs, nv) ==
    LET xs == [t \in 1..loop.length |-> [k \in DOMAIN loop.iter_vars |-> loop.vals[k][t]]]
        carry0 == InitCarry(Zeros(Len(TrueOutputs(loop))), FeedbackOutputIndices(loop),
                            FeedbackInputIndices(loop), inputs, 1)
        r == Scan(loop, inputs, carry0, xs, nv)
    IN [carry |-> r.carry,
        stack |-> [k \in DOMAIN loop.loop_vars |-> [t \in 1..loop.length |-> r.ys[t][k]]]]

\* ---- the host loop executed directly ------------------------------------
HostValue(hv, name, iv) == IF name = "i" THEN iv ELSE hv[name]

DirectStmt(hv, st, iv) ==
    IF st.kind = "Var" THEN [hv EXCEPT ![st.dst] = hv[st.l]]
    ELSE [hv EXCEPT ![st.dst] =
            OpValue(st.kind, HostValue(hv, st.l, iv), HostValue(hv, st.r, iv))]

RECURSIVE DirectBody(_, _, _)
DirectBody(hv, body, iv) ==
    IF body = <<>> THEN hv ELSE DirectBody(DirectStmt(hv, Head(body), iv), Tail(body), iv)

RECURSIVE DirectLoop(_, _, _)
DirectLoop(hv, body, lvals) ==
    IF lvals = <<>> THEN hv
    ELSE DirectLoop(DirectBody(hv, body, Head(lvals)), body, Tail(lvals))

\* ---- Loop.compute_inline as one call ----------------------------------
\* "for i in range(self.length)": iterations iter .. length-1
RECURSIVE InlineFrom(_, _, _, _)
InlineFrom(loop, v, st, iter) ==
    IF iter >= loop.length THEN [val |-> v, stack |-> st]
    ELSE LET v1 == SeedFeedback(v, loop.loop_vars, iter)
             v2 == BindIterVars(v1, loop.iter_vars, loop.vals, iter)
             st2 == IF loop.inline_lazy_stack THEN st
                    ELSE WriteStack(st, v2, loop.loop_vars, iter)
             v3 == UpdateFeedback(ExecuteInline(OpsOf(loop.graph), v2), loop.loop_vars)
         IN InlineFrom(loop, v3, st2, iter + 1)

\* compute_inline(): the stacked outputs are set to zeros (unless lazy),
\* then the iterations run
ComputeInline(loop, v, st) ==
    InlineFrom(loop, v,
               IF loop.inline_lazy_stack THEN st
               ELSE [k \in 1..loop.num_loop_vars |-> Zeros(loop.length)],
               0)

\* ---- Loop.get_stacked, the lazy evaluation ------------------------------
\* (mutant) the flag is cleared and the loop is not run again
LazyEvaluationSkipped(loop, inline, v, st) ==
    [loop |-> [loop EXCEPT !.inline_lazy_stack = FALSE], val |-> v, stack |-> st,
     runs |-> 0]

\* "if self.inline_lazy_stack: self.inline_lazy_stack = False; if
\* recorder.inline: self.compute_inline()"
LazyEvaluation(loop, inline, v, st) ==
    IF loop.inline_lazy_stack
    THEN LET cleared == [loop EXCEPT !.inline_lazy_stack = FALSE]
         IN IF inline
            THEN LET r == ComputeInline(cleared, v, st)
                 IN [loop |-> cleared, val |-> r.val, stack |-> r.stack, runs |-> 1]
            ELSE [loop |-> cleared, val |-> v, stack |-> st, runs |-> 0]
    ELSE [loop |-> loop, val |-> v, stack |-> st, runs |-> 0]

\* ---- Recorder: the tree of Graphs ---------------------------------------
\* A Tree node is a number; tree[n] is the parent of node n.
RootNode == 1                     \* Recorder.graph_tree
NoParent == 0                     \* Tree.parent of the root: None

\* Tree.add_child: the child is appended with its parent
AddChild(tree, node) == Append(tree, node)

\* (mutant) the child is hung under the root, whatever node is active
EnterSubgraphUnderRoot(rec) ==
    [rec EXCEPT !.graph_tree = AddChild(rec.graph_tree, RootNode),
                !.active_graph_node = Len(rec.graph_tree) + 1]

\* _enter_subgraph: a child of the active node is created and made active
EnterSubgraph(rec) ==
    [rec EXCEPT !.graph_tree = AddChild(rec.graph_tree, rec.active_graph_node),
                !.active_graph_node = Len(rec.graph_tree) + 1]

\* _exit_subgraph: the parent of the active node becomes active
ExitSubgraph(rec) ==
    [rec EXCEPT !.active_graph_node = rec.graph_tree[rec.active_graph_node]]

\* (mutant) the flag is cleared instead of restored
ClearInLoop(rec, saved) == [rec EXCEPT !.in_loop = FALSE]

\* "self._recorder._in_loop = self.in_loop"
RestoreInLoop(rec, saved) == [rec EXCEPT !.in_loop = saved]

\* a new Recorder: a tree with the root Graph, which is active
NewRecorder ==
    [graph_tree |-> <<NoParent>>, active_graph_node |-> RootNode, in_loop |-> FALSE]

\* ---- the manager and the api ---------------------------------------------
Recorders == {1, 2}
NoRecorder == 0                   \* manager.active_recorder is None

\* manager.activate_recorder: activation is exclusive, a recorder is
\* activated only while none is active
ActivateRecorder(active, r) ==
    IF active = NoRecorder THEN [active |-> r, raised |-> ""]
    ELSE [active |-> active, raised |-> "Exception"]

\* manager.deactivate_recorder: the active recorder is deactivated
DeactivateRecorder(active, r) ==
    IF active = r THEN [active |-> NoRecorder, raised |-> ""]
    ELSE [active |-> active, raised |-> "Exception"]

\* (mutant) the recorder slot is returned unchecked
GetCurrentRecorderUnchecked(active) == [raised |-> "", recorder |-> active]

\* get_current_recorder
GetCurrentRecorder(active) ==
    IF active = NoRecorder THEN [raised |-> "ValueError", recorder |-> NoRecorder]
    ELSE [raised |-> "", recorder |-> active]

\* ---- Recorder._add_node and Recorder._add_edge -----------------------------
\* the nodes offered to a Graph: two Variables and an Operation
GraphNodes ==
    {[kind |-> "Variable", id |-> 1], [kind |-> "Variable", id |-> 2],
     [kind |-> "Operation", id |-> 1]}
IsVariable(node) == node.kind = "Variable"

\* a Graph as the recorder sees it
NewGraph(add_missing_variables) ==
    [node_table |-> {}, inputs |-> {}, edges |-> {},
     add_missing_variables |-> add_missing_variables]

\* _add_node: active_graph.add_node(node)
RecorderAddNode(g, node) == [g EXCEPT !.node_table = @ \cup {node}]

\* (mutant) a missing Variable is admitted but not made a boundary input
RecorderAddEdgeNoInput(g, node_from, node_to) ==
    LET missing == node_from \notin g.node_table
        admit == missing /\ g.add_missing_variables /\ IsVariable(node_from)
        g1 == IF admit THEN [g EXCEPT !.node_table = @ \cup {node_from}] ELSE g
    IN IF missing /\ ~admit THEN [raised |-> "ValueError", g |-> g]
       ELSE IF node_to \notin g1.node_table THEN [raised |-> "ValueError", g |-> g1]
       ELSE [raised |-> "", g |-> [g1 EXCEPT !.edges = @ \cup {<<node_from, node_to>>}]]

\* _add_edge(node_from, node_to) on the active graph g
RecorderAddEdge(g, node_from, node_to) ==
    LET missing == node_from \notin g.node_table
        admit == missing /\ g.add_missing_variables /\ IsVariable(node_from)
        g1 == IF admit THEN [g EXCEPT !.node_table = @ \cup {node_from},
                                      !.inputs = @ \cup {node_from}]
              ELSE g
    IN IF missing /\ ~admit THEN [raised |-> "ValueError", g |-> g]
       ELSE IF node_to \notin g1.node_table THEN [raised |-> "ValueError", g |-> g1]
       ELSE [raised |-> "", g |-> [g1 EXCEPT !.edges = @ \cup {<<node_from, node_to>>}]]

\* ---- the end of post_iteration_two: the Loop joins the outer graph --------
VariableNode(v) == [kind |-> "Variable", id |-> v]
LoopNode == [kind |-> "Operation", id |-> 1]

\* (mutant) the Constants are left out of the outer graph
RegisterConstantsNever(lvs, external_inputs, g, consts) ==
    [external_inputs |-> external_inputs, outer |-> g]

\* "for loop_var in loop_vars: if isinstance(loop_var[1], Constant):
\* external_inputs.append(loop_var[1]); active_graph.add_node(loop_var[1])"
RECURSIVE RegisterConstants(_, _, _, _)
RegisterConstants(lvs, external_inputs, g, consts) ==
    IF lvs = <<>> THEN [external_inputs |-> external_inputs, outer |-> g]
    ELSE IF Head(lvs)[2] \in consts
         THEN RegisterConstants(Tail(lvs), Append(external_inputs, Head(lvs)[2]),
                                RecorderAddNode(g, VariableNode(Head(lvs)[2])), consts)
         ELSE RegisterConstants(Tail(lvs), external_inputs, g, consts)

\* the edges from the inputs of an Operation, in order, up to the first
\* ValueError
RECURSIVE ConnectInputs(_, _, _)
ConnectInputs(g, inputs, node) ==
    IF inputs = <<>> THEN [raised |-> "", g |-> g]
    ELSE LET r == RecorderAddEdge(g, VariableNode(Head(inputs)), node)
         IN IF r.raised # "" THEN r ELSE ConnectInputs(r.g, Tail(inputs), node)

\* Operation.finalize_and_return_outputs on the active graph: the Operation
\* becomes a node, its inputs are connected and its outputs become nodes
FinalizeAndReturnOutputs(g, operation) ==
    LET r == ConnectInputs(RecorderAddNode(g, LoopNode), operation.inputs, LoopNode)
    IN IF r.raised # "" THEN r
       ELSE [raised |-> "",
             g |-> [r.g EXCEPT !.node_table =
                        @ \cup {VariableNode(o) : o \in Range(operation.outputs) \ {ErrorMarker}}]]

\* ---- frange.__init__ --------------------------------------------------------
\* Python values with their type: a number has n, a container has items
PyNone == [ty |-> "NoneType", n |-> 0, items |-> <<>>]
PyInt(n) == [ty |-> "int", n |-> n, items |-> <<>>]
PyFloat(n) == [ty |-> "float", n |-> n, items |-> <<>>]     \* n + 0.5
PyList(items) == [ty |-> "list", n |-> 0, items |-> items]
PyTuple(items) == [ty |-> "tuple", n |-> 0, items |-> items]

\* all(isinstance(val, int) for val in vals)
AllInt(list) == \A k \in DOMAIN list.items : list.items[k].ty = "int"

\* list(range(lower, upper, increment)) for increment > 0
PyRange(lower, upper, increment) ==
    LET n == IF upper <= lower THEN 0 ELSE (upper - lower + increment - 1) \div increment
    IN PyList([k \in 1..n |-> PyInt(lower + (k - 1) * increment)])

\* the object under construction
NewFrange ==
    [raised |-> "", vals |-> PyNone, curr_index |-> 0, max_index |-> 0,
     in_subgraph |-> FALSE, iteration_variables |-> <<>>]

\* "for vals in self.vals: IterationVariable(vals)", which takes vals[0]
WithIterationVariables(self) ==
    IF \E k \in DOMAIN self.vals.items : self.vals.items[k].items = <<>>
    THEN [self EXCEPT !.raised = "IndexError"]
    ELSE [self EXCEPT !.iteration_variables =
                           [k \in DOMAIN self.vals.items |-> self.vals.items[k].items[1]]]

\* the rest of __init__ once self.vals is set
Constructed(self_vals) ==
    WithIterationVariables([NewFrange EXCEPT !.vals = self_vals, !.max_index = 2,
                                             !.in_subgraph = TRUE])

\* frange(arg1, arg2, increment, vals=vals)
FrangeInit(arg1, arg2, increment, vals) ==
    LET lower == IF arg2 = PyNone THEN PyInt(0) ELSE arg1
        upper == IF arg2 = PyNone THEN arg1 ELSE arg2
    IN IF arg2 = PyNone /\ arg1 = PyNone /\ vals = PyNone
       THEN [NewFrange EXCEPT !.raised = "ValueError"]
       ELSE IF vals = PyNone
       THEN IF lower = PyNone THEN [NewFrange EXCEPT !.raised = "TypeError"]
            ELSE IF upper.n < lower.n THEN [NewFrange EXCEPT !.raised = "ValueError"]
            ELSE Constructed(PyList(<<PyRange(lower.n, upper.n, increment)>>))
       ELSE IF vals.ty = "list"
       THEN IF ~AllInt(vals) THEN [NewFrange EXCEPT !.raised = "ValueError"]
            ELSE Constructed(PyList(<<vals>>))
       ELSE IF \E k \in DOMAIN vals.items : ~AllInt(vals.items[k])
            THEN [NewFrange EXCEPT !.raised = "ValueError"]
            ELSE Constructed(PyList(vals.items))

\* a list of lists of integers as plain sequences
Plain(lists) == [k \in DOMAIN lists.items |-> [j \in DOMAIN lists.items[k].items |-> lists.items[k].items[j].n]]

\* the arguments a frange is constructed with
Elements == {PyInt(0), PyInt(1), PyFloat(0)}
ListsUpTo(n) == {PyList(items) : items \in UNION {[1..m -> Elements] : m \in 0..n}}
BoundArgs == {PyNone} \cup {PyInt(n) : n \in 0..MaxBound}
ValsArgs ==
    {PyNone} \cup ListsUpTo(MaxValsLen)
    \cup {PyTuple(<<l>>) : l \in ListsUpTo(1)}
    \cup {PyTuple(<<l1, l2>>) : l1 \in ListsUpTo(1), l2 \in ListsUpTo(1)}

\* ---- BracketedSearch._inline_solve_ -----------------------------------------
\* Positions, residuals and tolerances are counted in units of 1/Unit, so
\* that every midpoint of max_iter + 1 halvings of a whole-number bracket is
\* an integer number of units; float64 computes the same values exactly.
Unit == 2 ^ (MaxIter + 1)

\* the elements of the one state, of shape (2,)
Elems == {1, 2}

Abs(n) == IF n < 0 THEN -n ELSE n

\* the residual graph: element j is slope[j] * (x[j] - root[j]), and element 1
\* of a coupled problem also adds x[2] - root[2]
Residual(p, x) ==
    [j \in Elems |->
        p.slope[j] * (x[j] - p.root[j])
        + IF p.coupled /\ j = 1 THEN x[2] - p.root[2] ELSE 0]

\* (mutant) the upper end is taken for the midpoint
XMidAtUpper(lower, upper) == upper

\* x_mid = (x_upper + x_lower) / 2
XMid(lower, upper) == [j \in Elems |-> (upper[j] + lower[j]) \div 2]

\* (mutant) the lower end moves when the signs differ
LowerMaskOpposite(r, sign) == [j \in Elems |-> (r[j] < 0) # sign[j]]

\* lower_mask = (r_update < 0) == r_sign
LowerMask(r, sign) == [j \in Elems |-> (r[j] < 0) = sign[j]]

\* check_run_time_tolerance(r_update, tolerance)
CheckRunTimeTolerance(r, tolerance) == \A j \in Elems : Abs(r[j]) <= tolerance[j]

\* the problems a solver is run on
Brackets == {<<0, 2>>, <<0, 1>>, <<1, 1>>, <<2, 0>>}
Tolerances == {Unit \div 2, Unit}
Slopes == {1, 4, -1}
Roots == {1, Unit - 1, Unit + 1}
Problems ==
    [bracket : Brackets, tolerance : Tolerances, max_iter : 1..MaxIter,
     slope : [Elems -> Slopes], root : [Elems -> Roots], coupled : BOOLEAN,
     print_status : BOOLEAN]

\* (mutant) the status is printed whatever print_status says
PrintStatusAlways(print_status, log, iterations, did_converge) ==
    Append(log, [iter |-> iterations, converged |-> did_converge])

\* if self.print_status: print(self._inline_print_nl_status(iter, converged))
PrintStatus(print_status, log, iterations, did_converge) ==
    IF print_status
    THEN Append(log, [iter |-> iterations, converged |-> did_converge])
    ELSE log

\* ---- BracketedSearch._jax_solve_ --------------------------------------------
\* loop_cond: the loop goes on unless every residual is within the tolerance
\* or i has reached max_iter
JaxLoopCond(p, v) ==
    ~((\A j \in Elems : Abs(v.r_update[j]) <= p.tolerance) \/ v.i >= p.max_iter)

\* loop_body
JaxLoopBody(p, r_sign, v) ==
    LET mid == XMid(v.x_lower, v.x_upper)
        r == Residual(p, mid)
        mask == LowerMask(r, r_sign)
    IN [x_lower |-> [j \in Elems |-> IF mask[j] THEN mid[j] ELSE v.x_lower[j]],
        x_upper |-> [j \in Elems |-> IF ~mask[j] THEN mid[j] ELSE v.x_upper[j]],
        r_update |-> r,
        i |-> v.i + 1]

\* lax.while_loop(loop_cond, loop_body, v)
RECURSIVE JaxWhileLoop(_, _, _)
JaxWhileLoop(p, r_sign, v) ==
    IF JaxLoopCond(p, v) THEN JaxWhileLoop(p, r_sign, JaxLoopBody(p, r_sign, v)) ELSE v

\* _jax_solve_: r_update starts at ones, and the states returned are the
\* midpoint of the bracket the loop ends with
JaxSolve(p) ==
    LET lower == [j \in Elems |-> p.bracket[1] * Unit]
        upper == [j \in Elems |-> p.bracket[2] * Unit]
        r_lower == Residual(p, lower)
        r_sign == [j \in Elems |-> r_lower[j] < 0]
        end == JaxWhileLoop(p, r_sign,
                   [x_lower |-> lower, x_upper |-> upper,
                    r_update |-> [j \in Elems |-> Unit], i |-> 0])
    IN [x_lower |-> end.x_lower, x_upper |-> end.x_upper, r_update |-> end.r_update,
        i |-> end.i, states |-> XMid(end.x_lower, end.x_upper)]

\* ---- GaussSeidel._inline_update_states ---------------------------------------
\* the scalar states of the solver, in the order they were added
States == 1..3

Others(k) == States \ {k}

\* the residual graph: the residual of state k is
\* x[k] - (c[k] + w * (sum of the other states)), and the state_update
\* Variable of state k, where one was declared, is c[k] + (sum of all states) + 1
SumOver(x, S) ==
    (IF 1 \in S THEN x[1] ELSE 0) + (IF 2 \in S THEN x[2] ELSE 0)
    + (IF 3 \in S THEN x[3] ELSE 0)

ResidualOf(p, k, x) == x[k] - (p.c[k] + p.w * SumOver(x, Others(k)))

StateUpdateOf(p, k, x) == p.c[k] + SumOver(x, States) + 1

\* self.update_residual(): every residual and every state_update Variable is
\* recomputed from the current state values
UpdateResidual(p, x) ==
    [residual |-> [k \in States |-> ResidualOf(p, k, x)],
     state_update |-> [k \in States |-> StateUpdateOf(p, k, x)]]

\* (mutant) the residual is subtracted also where a state_update was declared
NewStateValueFromResidual(declared, state_value_k, residual_value_k, update_value_k) ==
    state_value_k - residual_value_k

\* the new value of the current state
NewStateValue(declared, state_value_k, residual_value_k, update_value_k) ==
    IF ~declared
    THEN state_value_k - residual_value_k
    ELSE update_value_k

GsProblems ==
    [c : [States -> 0..1], w : 0..1, declared : [States -> BOOLEAN],
     initial_value : [States -> 0..MaxStateVal]]

\* ---- Mult -------------------------------------------------------------------
\* the positions of the elements of a flattened operand
Flat == {1, 2}

Operands == [Flat -> (0 - MaxOperand)..MaxOperand]

\* numpy's elementwise product
Times(u, v) == [k \in Flat |-> u[k] * v[k]]

\* compute_inline on arrays
MultInline(x, y) == [k \in Flat |-> MultComputeInline(x[k], y[k])]

MultEvaluateJacobian(x, y) == <<y, x>>

MultEvaluateVjp(x, y, vout) == <<Times(x, vout), Times(y, vout)>>

\* ---- Loop.evaluate_vjp ----------------------------------------------------
\* the cotangent map: the Variables a sensitivity has reached, and its value
Seeded(S, seed, nv) == [present |-> S, value |-> [x \in 1..nv |-> IF x \in S THEN seed ELSE 0]]
Check(cot, v) == v \in cot.present
Accumulate(cot, v, contribution) ==
    [present |-> cot.present \cup {v}, value |-> [cot.value EXCEPT ![v] = @ + contribution]]

Reverse(seq) == [k \in DOMAIN seq |-> seq[Len(seq) + 1 - k]]

\* build_feedback_data: one entry per feedback triple; the cotangent that
\* enters is the one of the feedback's external output
BuildFeedbackData(loop, cot) ==
    [k \in DOMAIN loop.loop_vars |->
        [kind |-> "feedback", body_input |-> loop.loop_vars[k][1],
         external_input |-> loop.loop_vars[k][2],
         external_body_IO |-> loop.loop_vars[k][3],
         input_stack |-> loop.loop_var_lookup[loop.loop_vars[k][3]],
         external_input_cotangent |-> cot.value[loop.loop_vars[k][3]]]]

ExternalData(kind, v, cotangent) ==
    [kind |-> kind, body_input |-> 0, external_input |-> 0, external_body_IO |-> v,
     input_stack |-> 0, external_input_cotangent |-> cotangent]

\* build_external_inputs_data: the inputs that are no feedback input, those
\* that receive a cotangent (accumulated from zero) and the remaining ones
BuildExternalInputsData(loop, feedback_inputs, wrt) ==
    LET others == SelectSeq(loop.inputs, LAMBDA v : v \notin feedback_inputs)
        with == SelectSeq(others, LAMBDA v : v \in wrt)
    IN [data |-> [k \in DOMAIN with |-> ExternalData("input", with[k], 0)],
        remaining |-> SelectSeq(others, LAMBDA v : v \notin wrt)]

\* build_external_outputs_data: the outputs that are no feedback output and
\* have a cotangent
BuildExternalOutputsData(loop, feedback_outputs, cot) ==
    LET with == SelectSeq(TrueOutputs(loop),
                          LAMBDA o : o \notin feedback_outputs /\ Check(cot, o))
    IN [k \in DOMAIN with |-> ExternalData("output", with[k], cot.value[with[k]])]

\* build_reversed_iteration_variables: the index L-1 down to 0 and every
\* iteration variable's values in reverse order
BuildReversedIterationVariables(loop) ==
    [rev_index |-> [k \in 1..loop.length |-> loop.length - k],
     rev_orig |-> [n \in DOMAIN loop.vals |-> Reverse(loop.vals[n])]]

\* the Variables of the derivative, named by their role and the Variable of
\* the original Loop they belong to
Named(role, v) == [role |-> role, of |-> v]

\* (mutant) the externally seeded outputs get no triple
VjpLoopVarsNoOutputs(feedbacks, parent_external_inputs, parent_external_outputs) ==
    LET all == feedbacks \o parent_external_inputs
    IN [k \in DOMAIN all |->
           <<Named("body_input_cotangent", all[k].external_body_IO),
             Named("external_input_cotangent", all[k].external_body_IO),
             Named("out_cotangent", all[k].external_body_IO)>>]

\* "for feedback_data in feedbacks + parent_external_inputs +
\* parent_external_outputs: vjp_loop_vars.append((body_input_cotangent,
\* external_input_cotangent, out_cotangent))"
VjpLoopVars(feedbacks, parent_external_inputs, parent_external_outputs) ==
    LET all == feedbacks \o parent_external_inputs \o parent_external_outputs
    IN [k \in DOMAIN all |->
           <<Named("body_input_cotangent", all[k].external_body_IO),
             Named("external_input_cotangent", all[k].external_body_IO),
             Named("out_cotangent", all[k].external_body_IO)>>]

\* vjp_external_inputs in the order evaluate_vjp appends them
VjpExternalInputs(remaining, feedbacks, ext_in, ext_out, stacks_seeded) ==
    [k \in DOMAIN remaining |-> Named("forward", remaining[k])]
    \o [k \in DOMAIN feedbacks |-> Named("forward", feedbacks[k].input_stack)]
    \o [k \in DOMAIN ext_out |-> Named("external_input_cotangent", ext_out[k].external_body_IO)]
    \o [k \in DOMAIN feedbacks |-> Named("external_input_cotangent", feedbacks[k].external_body_IO)]
    \o (IF stacks_seeded
        THEN [k \in DOMAIN feedbacks |-> Named("stack_cotangent", feedbacks[k].input_stack)]
        ELSE <<>>)
    \o [k \in 1..(2 * Len(ext_in)) |->
           IF k % 2 = 1
           THEN Named("external_input_cotangent", ext_in[(k + 1) \div 2].external_body_IO)
           ELSE Named("forward", ext_in[k \div 2].external_body_IO)]

\* vjp_external_ouputs + stacked_outputs
VjpOutputs(feedbacks, ext_in, ext_out) ==
    LET all == feedbacks \o ext_in \o ext_out
    IN [k \in DOMAIN all |-> Named("out_cotangent", all[k].external_body_IO)]
       \o [k \in DOMAIN all |-> Named("stacked", all[k].external_body_IO)]

\* "vjp_loop_op = Loop(inputs, outputs, graph, vals = [rev_index.vals] +
\* [rev_iter.vals ...], iter_vars = [rev_index] + rev_orig, loop_vars,
\* name, parent = self, inline_lazy_stack = True)"
VjpLoop(loop, inputs, outputs, rev, lvs) ==
    [loop |-> LoopInit(inputs, outputs, loop.graph, <<rev.rev_index>> \o rev.rev_orig,
                       <<Named("rev_index", 0)>>
                       \o [n \in DOMAIN loop.iter_vars |-> Named("rev_iter", loop.iter_vars[n])],
                       lvs, TRUE),
     parent |-> LoopNode]

\* the forward body replayed at one reverse step: the iteration variables
\* are the reversed ones and each feedback body input is
\* input_stack[rev_index]
ReplayBody(loop, feedbacks, rev, v, st, step) ==
    LET bound == BindIterVars(v, loop.iter_vars, rev.rev_orig, step)
        index == rev.rev_index[step + 1]
        fed == [x \in DOMAIN bound |->
                  IF \E k \in DOMAIN feedbacks : feedbacks[k].body_input = x
                  THEN st[CHOOSE k \in DOMAIN feedbacks : feedbacks[k].body_input = x][index + 1]
                  ELSE bound[x]]
    IN ExecuteInline(OpsOf(loop.graph), fed)

\* the cotangents an Operation gives its two inputs for cotangent c of its
\* output
OperationVjp(ty, x, y, c) ==
    IF ty = "Mult"
    THEN LET r == MultEvaluateVjp([k \in Flat |-> x], [k \in Flat |-> y], [k \in Flat |-> c])
         IN <<r[1][1], r[2][1]>>
    ELSE <<c, c>>

\* vjp(seeds, wrts, graph): the Operations in reverse order, each adding to
\* the cotangents of its inputs
RECURSIVE Vjp(_, _, _)
Vjp(ops, cot, v) ==
    IF ops = <<>> THEN cot
    ELSE LET o == ops[Len(ops)]
             c == cot[o.out]
             r == OperationVjp(o.ty, v[o.ins[1]], v[o.ins[2]], c)
             c1 == [cot EXCEPT ![o.ins[1]] = @ + r[1]]
             c2 == [c1 EXCEPT ![o.ins[2]] = @ + r[2]]
         IN Vjp(DropLast(ops, 1), IF c = 0 THEN cot ELSE c2, v)

\* the seeds: each feedback's and each seeded output's body cotangent on
\* the Variable of the body it belongs to
RECURSIVE SeedBody(_, _, _, _)
SeedBody(cot, data, carry, k) ==
    IF k > Len(data) THEN cot
    ELSE SeedBody(IF data[k].kind = "input" THEN cot
                  ELSE [cot EXCEPT ![data[k].external_body_IO] = @ + carry[k]],
                  data, carry, k + 1)

\* "accumulated = vjps[feedback.body_input] +
\* cotangents[feedback.input_stack][rev_index]" when the stack has a
\* cotangent, "vjps[feedback.body_input]" otherwise
FeedbackOutCotangent(vjp_value, stack_checked, stack_cotangent) ==
    IF stack_checked THEN vjp_value + stack_cotangent ELSE vjp_value

\* (mutant) the cotangent of an external input is not carried along
ExternalInputOutCotangentNotCarried(vjp_value, body_input_cotangent) == vjp_value

\* "out_cotangent = vjps[external_body_IO] + body_input_cotangent"
ExternalInputOutCotangent(vjp_value, body_input_cotangent) ==
    vjp_value + body_input_cotangent

\* (mutant) the cotangent of a seeded output is fed back as it is
ExternalOutputOutCotangentKept(body_input_cotangent) == body_input_cotangent

\* "out_cotangent = body_input_cotangent*0.0"
ExternalOutputOutCotangent(body_input_cotangent) == body_input_cotangent * 0

\* one pass of the derivative body: the out_cotangent of every entry
VjpBody(loop, data, rev, carry, v, st, step, stacks_seeded) ==
    LET feedbacks == SelectSeq(data, LAMBDA d : d.kind = "feedback")
        replayed == ReplayBody(loop, feedbacks, rev, v, st, step)
        seeds == SeedBody([x \in DOMAIN v |-> 0], data, carry, 1)
        vjps == Vjp(OpsOf(loop.graph), seeds, replayed)
    IN [k \in DOMAIN data |->
          IF data[k].kind = "feedback"
          THEN FeedbackOutCotangent(vjps[data[k].body_input], stacks_seeded, 1)
          ELSE IF data[k].kind = "input"
          THEN ExternalInputOutCotangent(vjps[data[k].external_body_IO], carry[k])
          ELSE ExternalOutputOutCotangent(carry[k])]

\* "for feedback in feedbacks: if cotangents.check(feedback.external_input):
\* cotangents.accumulate(...); for parent_external_input in
\* parent_external_inputs: cotangents.accumulate(...)"
RECURSIVE AccumulateAll(_, _, _, _)
AccumulateAll(cot, data, out, k) ==
    IF k > Len(data) THEN cot
    ELSE LET d == data[k]
             next == IF d.kind = "feedback" /\ Check(cot, d.external_input)
                     THEN Accumulate(cot, d.external_input, out[k])
                     ELSE IF d.kind = "input"
                     THEN Accumulate(cot, d.external_body_IO, out[k])
                     ELSE cot
         IN AccumulateAll(next, data, out, k + 1)

\* ---- frange.__next__ on loops inside loops --------------------------------
\* (mutant) compute_inline runs whenever the recorder is inline
ComputesInlineInAnyLoop(inline, in_loop) == inline

\* "if self._recorder.inline and not self.in_loop"
ComputesInline(inline, in_loop) == inline /\ ~in_loop

\* a frange after __init__ on recorder rec: the subgraph it entered, the
\* recorder as it was; changes says whether the body's second pass will have
\* another number of inputs or outputs than its first; enclosing is the
\* frange whose body constructs it, 0 outside every loop; built counts the
\* Loop operations post_iteration_two has built, calls the __next__ calls
NewNested(rec, changes, enclosing) ==
    [curr_index |-> 0, in_loop |-> <<>>, graph |-> Len(rec.graph_tree) + 1,
     before |-> rec, changes |-> changes, enclosing |-> enclosing, raised |-> "",
     built |-> 0, calls |-> 0]

\* post_iteration_two as the recorder sees it: a ValueError when the counts
\* changed, raised before the subgraph is left; otherwise _exit_subgraph,
\* whose "self.active_graph_node.value" fails when the parent is None, and
\* then the Loop is built
TraceEnd(self, rec) ==
    IF self.changes THEN [self |-> self, rec |-> rec, raised |-> "ValueError"]
    ELSE IF rec.active_graph_node = NoParent
    THEN [self |-> self, rec |-> rec, raised |-> "AttributeError"]
    ELSE LET exited == ExitSubgraph(rec)
         IN IF exited.active_graph_node = NoParent
            THEN [self |-> self, rec |-> exited, raised |-> "AttributeError"]
            ELSE [self |-> [self EXCEPT !.built = @ + 1], rec |-> exited, raised |-> ""]

\* frange.__next__: what it does to the frange and the recorder, whether it
\* calls compute_inline and what it raises
NextOf(self, rec, inline) ==
    IF self.curr_index = 0
    THEN [self |-> [self EXCEPT !.in_loop = <<rec.in_loop>>, !.curr_index = 1],
          rec |-> [rec EXCEPT !.in_loop = TRUE], ran |-> FALSE, raised |-> ""]
    ELSE IF self.curr_index = 1
    THEN [self |-> [self EXCEPT !.curr_index = 2], rec |-> rec, ran |-> FALSE,
          raised |-> ""]
    ELSE LET two == TraceEnd(self, rec)
         IN IF two.raised # ""
            THEN [self |-> two.self, rec |-> two.rec, ran |-> FALSE, raised |-> two.raised]
            ELSE [self |-> two.self, rec |-> RestoreInLoop(two.rec, self.in_loop[1]),
                  ran |-> ComputesInline(inline, self.in_loop[1]),
                  raised |-> "StopIteration"]

\* ---- Recorder: namespaces ---------------------------------------------------
\* A Python default argument is one object made when the function is
\* defined: "nodes=[]" of Namespace.__init__ is one list and "nodes=[]" of
\* Namespace.add_child is another.  Namespace.nodes names the list it holds.
InitDefault == 1
AddChildDefault == 2

\* a name given to _enter_namespace: a str, or something else
NsName(s) == [ty |-> "str", s |-> s]
NotAString == [ty |-> "int", s |-> "1"]
NsNames == {NsName("a"), NsName("b"), NotAString}

\* Namespace.__init__(name, nodes, prepend, parent); a name or prepend that
\* is None is <<>>
NewNamespace(name, nodes, prepend, parent) ==
    [name |-> name, nodes |-> nodes, prepend |-> IF prepend = <<>> THEN name ELSE prepend,
     parent |-> parent, child_names |-> {}]

\* Namespace.add_child(name, prepend=prepend): nodes is add_child's default
NamespaceAddChild(tree, self, name, prepend) ==
    Append(tree, NewNamespace(name, AddChildDefault, prepend, self))

\* Recorder.__init__: Namespace(None) takes __init__'s default list
NewScoped ==
    [graph_tree |-> <<NoParent>>, active_graph_node |-> RootNode, active_graph |-> RootNode,
     namespace_tree |-> <<NewNamespace(<<>>, InitDefault, <<>>, NoParent)>>,
     active_namespace |-> RootNode, hierarchy |-> 0]

\* Recorder._enter_namespace(name)
EnterNamespace(rec, name) ==
    IF name.ty # "str" THEN [rec |-> rec, raised |-> "TypeError"]
    ELSE IF rec.active_namespace = NoParent THEN [rec |-> rec, raised |-> "AttributeError"]
    ELSE LET self == rec.active_namespace
             active == rec.namespace_tree[self]
             prepend == IF active.name = <<>> THEN <<name.s>>
                        ELSE active.prepend \o <<name.s>>
             named == [rec.namespace_tree EXCEPT ![self].child_names = @ \cup {name.s}]
         IN IF name.s \in active.child_names THEN [rec |-> rec, raised |-> "Exception"]
            ELSE [rec |-> [rec EXCEPT !.hierarchy = @ + 1,
                                      !.namespace_tree =
                                          NamespaceAddChild(named, self, <<name.s>>, prepend),
                                      !.active_namespace = Len(rec.namespace_tree) + 1],
                  raised |-> ""]

\* Recorder._exit_namespace(): hierarchy is lowered first, then the parent
\* of the active namespace is taken, which fails on None
ExitNamespace(rec) ==
    IF rec.active_namespace = NoParent
    THEN [rec |-> [rec EXCEPT !.hierarchy = @ - 1], raised |-> "AttributeError"]
    ELSE [rec |-> [rec EXCEPT !.hierarchy = @ - 1,
                              !.active_namespace =
                                  rec.namespace_tree[rec.active_namespace].parent],
          raised |-> ""]

\* Recorder._enter_subgraph(): add_child fails on None
EnterSubgraphOn(rec) ==
    IF rec.active_graph_node = NoParent THEN [rec |-> rec, raised |-> "AttributeError"]
    ELSE LET entered_rec == EnterSubgraph(rec)
         IN [rec |-> [entered_rec EXCEPT !.active_graph = entered_rec.active_graph_node],
             raised |-> ""]

\* Recorder._exit_subgraph(): the parent becomes the active node, then its
\* value is taken, which fails on None and leaves active_graph as it was
ExitSubgraphOn(rec) ==
    IF rec.active_graph_node = NoParent THEN [rec |-> rec, raised |-> "AttributeError"]
    ELSE LET exited == ExitSubgraph(rec)
         IN IF exited.active_graph_node = NoParent
            THEN [rec |-> exited, raised |-> "AttributeError"]
            ELSE [rec |-> [exited EXCEPT !.active_graph = exited.active_graph_node],
                  raised |-> ""]

\* Recorder._set_namespace(node): "self.active_namespace.nodes.append(node)"
\* appends to the list the Namespace holds
SetNamespace(rec, lists, node) ==
    IF rec.active_namespace = NoParent THEN [lists |-> lists, raised |-> "AttributeError"]
    ELSE [lists |-> [lists EXCEPT ![rec.namespace_tree[rec.active_namespace].nodes] =
                                      Append(@, node)],
          raised |-> ""]

\* ---- BracketedSearch.add_state and GaussSeidel.add_state --------------------
\* an argument: its Python type and, for a Variable or an array, its shape
Arg(ty, arg_shape) == [ty |-> ty, shape |-> arg_shape]
NoneArg == Arg("NoneType", <<>>)
StateShape == <<2>>

\* a solver before any add_state
NewSolver(kind) ==
    [kind |-> kind, state_to_residual_map |-> <<>>, state_metadata |-> {},
     intersection_targets |-> {}]

\* add_state_residual_pair(state, residual): the pair is registered
AddStateResidualPair(solver, state, residual) ==
    [solver EXCEPT !.state_to_residual_map = Append(@, <<state, residual>>)]

\* add_state_metadata(state, key, value)
AddStateMetadata(solver, state, key, value) ==
    [solver EXCEPT !.state_metadata =
                       {m \in @ : ~(m.state = state /\ m.key = key)}
                       \cup {[state |-> state, key |-> key, value |-> value]}]

\* add_tolerance(state, tolerance): the solver's tolerance when None is given
AddTolerance(solver, state, tolerance) ==
    AddStateMetadata(solver, state, "tolerance",
                     IF tolerance = NoneArg THEN Arg("float", <<>>) ELSE tolerance)

\* the first bracket element that is refused, or 0: a Variable or an array
\* must have shape (1,) or the state's shape, anything else must be a number
RECURSIVE BadElement(_, _)
BadElement(items, k) ==
    IF k > Len(items) THEN 0
    ELSE IF items[k].ty \in {"Variable", "ndarray"}
    THEN IF items[k].shape = <<1>> \/ items[k].shape = StateShape
         THEN BadElement(items, k + 1) ELSE k
    ELSE IF items[k].ty \in {"float", "int"} THEN BadElement(items, k + 1) ELSE k

\* BracketedSearch.add_state(state, residual, bracket, tolerance)
BracketedAddState(solver, state, residual, bracket, tolerance) ==
    LET paired == AddStateResidualPair(solver, state, residual)
        bad == BadElement(bracket.items, 1)
    IN IF bracket.ty # "tuple" THEN [solver |-> paired, raised |-> "TypeError"]
       ELSE IF Len(bracket.items) # 2 THEN [solver |-> paired, raised |-> "ValueError"]
       ELSE IF bad # 0
       THEN [solver |-> paired,
             raised |-> IF bracket.items[bad].ty \in {"Variable", "ndarray"}
                        THEN "ValueError" ELSE "TypeError"]
       ELSE [solver |-> AddTolerance(
                            AddStateMetadata(
                                AddStateMetadata(paired, state, "bracket_l", bracket.items[1]),
                                state, "bracket_r", bracket.items[2]),
                            state, tolerance),
             raised |-> ""]

\* whether the initial value is accepted: a Variable by
\* check_variable_shape_compatibility, anything else by ingest_value and
\* the size and shape tests
InitialValueFits(initial_value) ==
    IF initial_value.ty = "Variable"
    THEN initial_value.shape = <<1>> \/ initial_value.shape = StateShape
    ELSE IF initial_value.ty \in {"float", "int"} THEN TRUE
    ELSE IF initial_value.ty = "ndarray"
    THEN initial_value.shape = <<1>> \/ initial_value.shape = StateShape
    ELSE FALSE

\* GaussSeidel.add_state(state, residual, state_update, initial_value,
\* tolerance)
GaussSeidelAddState(solver, state, residual, state_update, initial_value, tolerance) ==
    LET paired == AddStateResidualPair(solver, state, residual)
        targeted == IF state_update = NoneArg THEN paired
                    ELSE [paired EXCEPT !.intersection_targets = @ \cup {state}]
        updated == AddStateMetadata(targeted, state, "state_update", state_update)
        stored == IF initial_value = NoneArg THEN Arg("ndarray", StateShape)
                  ELSE Arg(IF initial_value.ty = "Variable" THEN "Variable" ELSE "ndarray",
                           StateShape)
    IN IF state_update # NoneArg /\ state_update.ty # "Variable"
       THEN [solver |-> paired, raised |-> "ValueError"]
       ELSE IF initial_value # NoneArg /\ ~InitialValueFits(initial_value)
       THEN [solver |-> updated, raised |-> "ValueError"]
       ELSE [solver |-> AddTolerance(AddStateMetadata(updated, state, "initial_value", stored),
                                     state, tolerance),
             raised |-> ""]

\* the arguments add_state is called with
BracketElements ==
    {Arg("Variable", <<1>>), Arg("Variable", <<2>>), Arg("Variable", <<3>>),
     Arg("ndarray", <<3>>), Arg("float", <<>>), Arg("str", <<>>)}
BracketArgs ==
    {[ty |-> "list", items |-> <<Arg("float", <<>>), Arg("float", <<>>)>>],
     [ty |-> "tuple", items |-> <<Arg("float", <<>>)>>]}
    \cup {[ty |-> "tuple", items |-> <<l, r>>] : l \in BracketElements, r \in BracketElements}
StateUpdateArgs == {NoneArg, Arg("Variable", StateShape), Arg("float", <<>>)}
InitialValueArgs ==
    {NoneArg, Arg("Variable", <<1>>), Arg("Variable", <<2>>), Arg("Variable", <<3>>),
     Arg("float", <<>>), Arg("ndarray", <<1>>), Arg("ndarray", <<2>>), Arg("ndarray", <<3>>),
     Arg("str", <<>>)}

\* ---- state ---------------------------------------------------------------
VARIABLES
    pc,                \* "call": __next__ is about to be called; "body": the host body runs;
                       \* "bind", "exec": inside compute_inline; "stopped"; "failed";
                       \* "read": get_stacked has been called
    curr_index,        \* frange.curr_index
    body1, body2,      \* what the host body does in its first and second pass
    vals,              \* frange.vals: one list of values per iteration variable
    inline_lazy_stack, \* frange.inline_lazy_stack
    env,               \* host name -> the Variable it is bound to
    val0,              \* the values of a and b before the loop
    val, shape,        \* Variable.value, Variable.shape
    node_table,        \* the body graph's node_table, in insertion order
    graph_inputs,      \* the body graph's inputs
    iter1_inputs, iter1_outputs, iter1_non_inputs,
    iter2_inputs, iter2_outputs,
    loop_vars,         \* the feedback triples formed by post_iteration_two
    op,                \* <<the Loop>> once built, <<>> before
    i,                 \* compute_inline's loop counter
    stack,             \* the values of the stacked outputs, one list per loop_var
    constants,         \* the host Variables that are Constants made inside the body
    outer_graph,       \* the graph that was active when the frange was constructed
    read,              \* the last get_stacked call on the Loop and what it did
    executed,          \* the iterations compute_inline has executed, in order
    passes,            \* how often the host body has run
    calls,             \* how often __next__ has been called
    raised,            \* "", "StopIteration" or "ValueError"
    recorder,          \* frange._recorder: graph_tree, active_graph_node, _in_loop
    in_loop,           \* frange.in_loop: <<>> until the first __next__ sets it
    loop_graph,        \* frange._graph
    origin,            \* the recorder as it was when the frange was constructed
    first_run,         \* the values and stacks before the graph is executed again
    recorders,         \* the constructed Recorders
    active_recorder,   \* manager.active_recorder
    started,           \* the Recorders started and not stopped since
    entered,           \* per Recorder, the nodes that were active at each open enter
    last_call,         \* the last call of the api and how it ended
    active_graph,      \* a Graph that is the active graph of a recorder
    edge_call,         \* the last _add_edge call on it and how it ended
    args,              \* the arguments of a frange under construction
    made,              \* <<>>, or <<the frange constructed from args>>
    problem,           \* the bracket, tolerance, max_iter and residual of a solve
    solve_pc,          \* "idle", "init", "loop" or "done"
    x_lower,           \* lower end of the bracket, per element
    x_upper,           \* upper end of the bracket, per element
    r_sign,            \* whether the residual at the initial lower end is negative
    x_mid,             \* the last midpoint, which is the value of the state
    r_update,          \* the residual at the last midpoint
    lower_mask,        \* the elements whose lower end moved last
    iter,              \* the solver's iteration counter
    converged,         \* whether the tolerance was met
    state_value,       \* the value of the state Variable, per element
    status_log,        \* the status lines printed
    jax_states,        \* <<>>, or <<the outcome of _jax_solve_ on problem>>
    gs_problem,        \* the residual graph and the states of a GaussSeidel solver
    gs_value,          \* the value of each state Variable
    gs_residual,       \* the value of each residual Variable
    gs_state_update,   \* the value of each state_update Variable
    gs_next,           \* the state the pass updates next; 0 when no pass runs
    mult_args,         \* the operands x, y and the cotangent vout given to a Mult
    mult_out,          \* <<>>, or <<what compute_inline returned>>
    mult_jacobian,     \* <<>>, or <<what evaluate_jacobian returned>>
    mult_vjp,          \* <<>>, or <<what evaluate_vjp returned>>
    vjp_call,          \* the cotangents evaluate_vjp is called with and what is wanted
    vjp_data,          \* feedbacks + parent_external_inputs + parent_external_outputs
    vjp_loop_op,       \* <<>>, or <<the Loop evaluate_vjp built>>
    vjp_i,             \* the reverse step the derivative Loop is at
    vjp_carry,         \* the body_input_cotangent values entering that step
    cotangents,        \* the cotangent map after evaluate_vjp
    added_ops,         \* the Operations evaluate_vjp added to the outer graph
    nest_recorder,     \* the recorder the nested franges are constructed on
    nest_inline,       \* Recorder.inline of that recorder
    franges,           \* the frange objects constructed so far
    host,              \* the franges whose for statement is running, innermost last
    inline_runs,       \* the franges whose __next__ called compute_inline, in order
    ns_recorders,      \* per Recorder: the graph tree, the namespace tree, hierarchy
    ns_lists,          \* the list objects that Namespace.nodes attributes hold
    node_namespace,    \* node.namespace: <<>>, or <<recorder, namespace>>
    ns_raised,         \* what the last call on a recorder raised
    solver,            \* a nonlinear solver: its registered pairs and state metadata
    add_state_call     \* the last add_state call on it and how it ended

tracer_vars == <<constants, outer_graph, read, pc, curr_index, body1, body2, vals,
                 inline_lazy_stack, env, val0, val,
                 shape, node_table, graph_inputs, iter1_inputs, iter1_outputs,
                 iter1_non_inputs, iter2_inputs, iter2_outputs, loop_vars, op, i, stack,
                 executed, passes, calls, raised, recorder, in_loop, loop_graph, origin,
                 first_run>>

recorder_vars == <<recorders, active_recorder, started, entered, last_call>>

graph_vars == <<active_graph, edge_call>>

frange_vars == <<args, made>>

search_vars == <<problem, solve_pc, x_lower, x_upper, r_sign, x_mid, r_update,
                 lower_mask, iter, converged, state_value, status_log, jax_states>>

gs_vars == <<gs_problem, gs_value, gs_residual, gs_state_update, gs_next>>

mult_vars == <<mult_args, mult_out, mult_jacobian, mult_vjp>>

vjp_vars == <<vjp_call, vjp_data, vjp_loop_op, vjp_i, vjp_carry, cotangents, added_ops>>

diff_vars == <<mult_vars, vjp_vars>>

nest_vars == <<nest_recorder, nest_inline, franges, host, inline_runs>>

ns_vars == <<ns_recorders, ns_lists, node_namespace, ns_raised>>

add_state_vars == <<solver, add_state_call>>

rest_vars == <<nest_vars, ns_vars, add_state_vars>>

aside_vars ==
    <<recorder_vars, graph_vars, frange_vars, search_vars, gs_vars, diff_vars, rest_vars>>

vars == <<tracer_vars, aside_vars>>

NoRead ==
    [n |-> 0, variable |-> 0, returned |-> 0, runs |-> 0,
     before |-> [val |-> <<>>, stack |-> <<>>]]

\* a recorder at its root graph outside any loop, or inside the body
\* subgraph of an enclosing loop that is being traced
BaseRecorders ==
    LET top == [graph_tree |-> <<NoParent>>, active_graph_node |-> RootNode,
                in_loop |-> FALSE]
    IN {top, [EnterSubgraph(top) EXCEPT !.in_loop = TRUE]}

NoCall == [name |-> "", raised |-> "", rec |-> NoRecorder, before |-> NewRecorder,
           expected |-> NoParent]

RecorderIdle ==
    /\ recorders = [r \in Recorders |-> NewRecorder]
    /\ active_recorder = NoRecorder
    /\ started = {}
    /\ entered = [r \in Recorders |-> <<>>]
    /\ last_call = NoCall

NoEdgeCall ==
    [name |-> "", raised |-> "", node_from |-> [kind |-> "", id |-> 0],
     node_to |-> [kind |-> "", id |-> 0], before |-> NewGraph(FALSE)]

GraphIdle == active_graph = NewGraph(FALSE) /\ edge_call = NoEdgeCall

NoArgs == [arg1 |-> PyNone, arg2 |-> PyNone, increment |-> 1, vals |-> PyNone]

FrangeIdle == args = NoArgs /\ made = <<>>

ZeroArray == [j \in Elems |-> 0]
FalseArray == [j \in Elems |-> FALSE]
NoProblem ==
    [bracket |-> <<0, 0>>, tolerance |-> 0, max_iter |-> 0,
     slope |-> ZeroArray, root |-> ZeroArray, coupled |-> FALSE,
     print_status |-> FALSE]

Unsolved ==
    /\ x_lower = ZeroArray /\ x_upper = ZeroArray /\ r_sign = FalseArray
    /\ x_mid = ZeroArray /\ r_update = ZeroArray /\ lower_mask = FalseArray
    /\ iter = 0 /\ converged = FALSE
    /\ state_value = ZeroArray /\ status_log = <<>> /\ jax_states = <<>>

SearchIdle == problem = NoProblem /\ solve_pc = "idle" /\ Unsolved

ZeroStates == [k \in States |-> 0]
NoGsProblem ==
    [c |-> ZeroStates, w |-> 0, declared |-> [k \in States |-> FALSE],
     initial_value |-> ZeroStates]

GsIdle ==
    /\ gs_problem = NoGsProblem /\ gs_value = ZeroStates /\ gs_residual = ZeroStates
    /\ gs_state_update = ZeroStates /\ gs_next = 0

ZeroOperand == [k \in Flat |-> 0]

MultIdle ==
    /\ mult_args = [x |-> ZeroOperand, y |-> ZeroOperand, vout |-> ZeroOperand]
    /\ mult_out = <<>> /\ mult_jacobian = <<>> /\ mult_vjp = <<>>

NoVjpCall == [seeded |-> {}, seed |-> 0, wrt |-> {}, stacks_seeded |-> FALSE]

VjpIdle ==
    /\ vjp_call = NoVjpCall /\ vjp_data = <<>> /\ vjp_loop_op = <<>> /\ vjp_i = 0
    /\ vjp_carry = <<>> /\ cotangents = Seeded({}, 0, 0) /\ added_ops = <<>>

DiffIdle == MultIdle /\ VjpIdle

NestIdle ==
    /\ nest_recorder = NewRecorder /\ nest_inline = FALSE
    /\ franges = <<>> /\ host = <<>> /\ inline_runs = <<>>

NsNodes == 1..MaxRegistered

NsIdle ==
    /\ ns_recorders = [r \in Recorders |-> NewScoped]
    /\ ns_lists = [l \in {InitDefault, AddChildDefault} |-> <<>>]
    /\ node_namespace = [x \in NsNodes |-> <<>>]
    /\ ns_raised = ""

NoAddState == [state |-> 0, raised |-> "", before |-> NewSolver("")]

AddStateIdle == solver = NewSolver("") /\ add_state_call = NoAddState

RestIdle == NestIdle /\ NsIdle /\ AddStateIdle

\* frange(lo, lo + L) on an inline recorder, not inside another loop: the
\* subgraph is entered and the IterationVariable is created with vals[0]
\* consts are the host Variables that wrap a plain number: such a Constant is
\* made inside the body graph and is no member of the outer graph, which
\* admits missing Variables when it is itself the body of a loop
Begin(p, q, L, lo, va, vb, lazy, base, consts) ==
        /\ RecorderIdle /\ GraphIdle /\ FrangeIdle /\ SearchIdle /\ GsIdle /\ DiffIdle /\ RestIdle
        /\ origin = base
        /\ constants = consts
        /\ outer_graph = [NewGraph(base.in_loop) EXCEPT
                              !.node_table = {VariableNode(v) : v \in {1, 2} \ consts}]
        /\ read = NoRead
        /\ recorder = EnterSubgraph(base)
        /\ loop_graph = Len(base.graph_tree) + 1
        /\ in_loop = <<>>
        /\ first_run = <<>>
        /\ body1 = p /\ body2 = q
        /\ vals = Plain(FrangeInit(PyInt(lo), PyInt(lo + L), 1, PyNone).vals)
        /\ inline_lazy_stack = lazy
        /\ val0 = [h \in HostNames |-> IF h = "a" THEN va ELSE vb]
        /\ val = <<va, vb, lo>>
        /\ shape = <<BodyShape, BodyShape, BodyShape>>
        /\ env = InitEnv
        /\ node_table = [k \in 1..Cardinality(consts) |->
                             VarNode(IF k = 1 /\ 1 \in consts THEN 1 ELSE 2)]
                         \o <<VarNode(IterVar)>>
        /\ graph_inputs = <<>>
        /\ curr_index = 0
        /\ pc = "call"
        /\ iter1_inputs = <<>> /\ iter1_outputs = <<>> /\ iter1_non_inputs = {}
        /\ iter2_inputs = <<>> /\ iter2_outputs = <<>>
        /\ loop_vars = <<>> /\ op = <<>>
        /\ i = 0 /\ stack = <<>> /\ executed = <<>>
        /\ passes = 0 /\ calls = 0 /\ raised = ""

Init ==
    \E p \in Programs, L \in 1..MaxL, lo \in 0..MaxLower, va \in 1..MaxVal, vb \in 1..MaxVal :
      \E q \in Variants(p), lazy \in BOOLEAN, base \in BaseRecorders :
        Begin(p, q, L, lo, va, vb, lazy, base, {})

\* ---- frange.__next__ ----------------------------------------------------
\* first call: nothing is processed, the iteration variable is yielded
NextFirst ==
    /\ pc = "call" /\ curr_index = 0
    /\ in_loop' = <<recorder.in_loop>>
    /\ recorder' = [recorder EXCEPT !.in_loop = TRUE]
    /\ curr_index' = 1
    /\ pc' = "body"
    /\ calls' = calls + 1
    /\ UNCHANGED <<loop_graph, origin, first_run, aside_vars, read,
                   constants, outer_graph,
                   body1, body2, vals, inline_lazy_stack, env, val0, val, shape,
                   node_table, graph_inputs, iter1_inputs, iter1_outputs,
                   iter1_non_inputs, iter2_inputs, iter2_outputs, loop_vars, op, i,
                   stack, executed, passes, raised>>

\* (mutant) the second call already ends the iteration
NextSecondStops ==
    /\ pc = "call" /\ curr_index = 1
    /\ LET r == PostIterationOne(node_table)
       IN /\ iter1_inputs' = r.iter1_inputs
          /\ iter1_outputs' = r.iter1_outputs
          /\ iter1_non_inputs' = r.iter1_non_inputs
          /\ node_table' = r.nt
    /\ pc' = "stopped"
    /\ raised' = "StopIteration"
    /\ calls' = calls + 1
    /\ UNCHANGED <<recorder, in_loop, loop_graph, origin, first_run, aside_vars, read,
                   constants, outer_graph,
                   curr_index, body1, body2, vals, inline_lazy_stack, env, val0, val,
                   shape, graph_inputs, iter2_inputs, iter2_outputs, loop_vars, op, i,
                   stack, executed, passes>>

\* (mutant) the second call advances the iteration variable to its next value
NextSecondAdvances ==
    /\ pc = "call" /\ curr_index = 1
    /\ LET r == PostIterationOne(node_table)
       IN /\ iter1_inputs' = r.iter1_inputs
          /\ iter1_outputs' = r.iter1_outputs
          /\ iter1_non_inputs' = r.iter1_non_inputs
          /\ node_table' = r.nt
    /\ val' = [val EXCEPT ![IterVar] = vals[1][IF Len(vals[1]) >= 2 THEN 2 ELSE 1]]
    /\ curr_index' = 2
    /\ pc' = "body"
    /\ calls' = calls + 1
    /\ UNCHANGED <<recorder, in_loop, loop_graph, origin, first_run, aside_vars, read,
                   constants, outer_graph,
                   body1, body2, vals, inline_lazy_stack, env, val0, shape,
                   graph_inputs, iter2_inputs, iter2_outputs, loop_vars, op, i,
                   stack, executed, passes, raised>>

\* second call: post_iteration_one, then the iteration variable is yielded
NextSecond ==
    /\ pc = "call" /\ curr_index = 1
    /\ LET r == PostIterationOne(node_table)
       IN /\ iter1_inputs' = r.iter1_inputs
          /\ iter1_outputs' = r.iter1_outputs
          /\ iter1_non_inputs' = r.iter1_non_inputs
          /\ node_table' = r.nt
    /\ curr_index' = 2
    /\ pc' = "body"
    /\ calls' = calls + 1
    /\ UNCHANGED <<recorder, in_loop, loop_graph, origin, first_run, aside_vars, read,
                   constants, outer_graph,
                   body1, body2, vals, inline_lazy_stack, env, val0, val, shape,
                   graph_inputs, iter2_inputs, iter2_outputs, loop_vars, op, i,
                   stack, executed, passes, raised>>

\* third call: post_iteration_two; a ValueError leaves __next__ inside the
\* body subgraph; otherwise the subgraph is left, the Loop is built, _in_loop
\* is restored and, outside an enclosing loop, compute_inline starts
NextThird ==
    /\ pc = "call" /\ curr_index = 2
    /\ calls' = calls + 1
    /\ LET r == PostIterationTwo(node_table, iter1_inputs, iter1_outputs, iter1_non_inputs)
           n == Len(r.loop_vars)
           L == Len(vals[1])
           marked == MarkedOutputs(r.iter2_outputs, r.loop_vars)
           registered == RegisterConstants(r.loop_vars, graph_inputs, outer_graph, constants)
           built == BuilderFinalize(r.nt, registered.external_inputs, marked, r.loop_vars,
                                    vals, Len(val), inline_lazy_stack)
           finalized == FinalizeAndReturnOutputs(registered.outer, built)
       IN /\ iter2_inputs' = r.iter2_inputs
          /\ loop_vars' = r.loop_vars
          /\ node_table' = r.nt
          /\ iter1_non_inputs' = r.non_inputs
          /\ IF ~r.ok
             THEN /\ raised' = "ValueError"
                  /\ pc' = "failed"
                  /\ iter2_outputs' = r.iter2_outputs
                  /\ UNCHANGED <<graph_inputs, op, val, shape, stack, recorder, outer_graph>>
             ELSE IF finalized.raised # ""
             THEN /\ raised' = finalized.raised
                  /\ pc' = "failed"
                  /\ iter2_outputs' = marked
                  /\ recorder' = ExitSubgraph(recorder)
                  /\ graph_inputs' = NewInputs(registered.external_inputs, r.nt)
                  /\ outer_graph' = finalized.g
                  /\ UNCHANGED <<op, val, shape, stack>>
             ELSE /\ recorder' = RestoreInLoop(ExitSubgraph(recorder), in_loop[1])
                  /\ outer_graph' = finalized.g
                  /\ IF in_loop[1]
                     THEN raised' = "StopIteration" /\ pc' = "traced"
                     ELSE raised' = "" /\ pc' = "bind"
                  /\ iter2_outputs' = marked
                  /\ graph_inputs' = NewInputs(registered.external_inputs, r.nt)
                  /\ op' = <<built>>
                  /\ val' = val \o Zeros(n)
                  /\ shape' = shape \o [k \in 1..n |-> StackedShape(shape[r.loop_vars[k][1]], L)]
                  /\ stack' = IF inline_lazy_stack THEN [k \in 1..n |-> <<>>]
                              ELSE [k \in 1..n |-> Zeros(L)]
    /\ UNCHANGED <<in_loop, loop_graph, origin, first_run, aside_vars, read, constants,
                   curr_index, body1, body2, vals, inline_lazy_stack, env, val0,
                   iter1_inputs, iter1_outputs, i, executed, passes>>

\* ---- the host body between two __next__ calls ---------------------------
HostBody ==
    /\ pc = "body"
    /\ LET h == RunBody([env |-> env, val |-> val, shape |-> shape,
                         nt |-> node_table, gin |-> graph_inputs],
                        IF passes = 0 THEN body1 ELSE body2)
       IN /\ env' = h.env /\ val' = h.val /\ shape' = h.shape
          /\ node_table' = h.nt /\ graph_inputs' = h.gin
    /\ passes' = passes + 1
    /\ pc' = "call"
    /\ UNCHANGED <<recorder, in_loop, loop_graph, origin, first_run, aside_vars, read,
                   constants, outer_graph,
                   curr_index, body1, body2, vals, inline_lazy_stack, val0,
                   iter1_inputs, iter1_outputs, iter1_non_inputs, iter2_inputs,
                   iter2_outputs, loop_vars, op, i, stack, executed, calls, raised>>

\* ---- compute_inline, one iteration in two steps -------------------------
\* the feedback inputs are seeded, the iteration variables bound and the
\* stacked outputs written
InlineBind ==
    /\ pc = "bind"
    /\ LET loop == op[1]
           v1 == SeedFeedback(val, loop.loop_vars, i)
           v2 == BindIterVars(v1, loop.iter_vars, loop.vals, i)
       IN /\ val' = v2
          /\ stack' = IF loop.inline_lazy_stack THEN stack
                      ELSE WriteStack(stack, v2, loop.loop_vars, i)
    /\ pc' = "exec"
    /\ UNCHANGED <<recorder, in_loop, loop_graph, origin, first_run, aside_vars, read,
                   constants, outer_graph,
                   curr_index, body1, body2, vals, inline_lazy_stack, env, val0, shape,
                   node_table, graph_inputs, iter1_inputs, iter1_outputs,
                   iter1_non_inputs, iter2_inputs, iter2_outputs, loop_vars, op, i,
                   executed, passes, calls, raised>>

\* the body graph is executed and the feedback inputs are updated; after
\* the last iteration __next__ raises StopIteration
InlineExec ==
    /\ pc = "exec"
    /\ LET loop == op[1]
       IN val' = UpdateFeedback(ExecuteInline(OpsOf(loop.graph), val), loop.loop_vars)
    /\ executed' = Append(executed, i)
    /\ i' = i + 1
    /\ IF i + 1 < op[1].length
       THEN pc' = "bind" /\ raised' = raised
       ELSE pc' = "stopped" /\ raised' = "StopIteration"
    /\ UNCHANGED <<recorder, in_loop, loop_graph, origin, first_run, aside_vars, read,
                   constants, outer_graph,
                   curr_index, body1, body2, vals, inline_lazy_stack, env, val0, shape,
                   node_table, graph_inputs, iter1_inputs, iter1_outputs,
                   iter1_non_inputs, iter2_inputs, iter2_outputs, loop_vars, op,
                   stack, passes, calls>>

\* ---- the recorded graph is executed once more ----------------------------
\* every Operation of the outer graph is interpreted again: the Loop's
\* compute_inline runs a second time on the values the first run left
Execute ==
    /\ pc = "stopped"
    /\ first_run' = <<[val |-> val, stack |-> stack]>>
    /\ LET r == ComputeInline(op[1], val, stack)
       IN val' = r.val /\ stack' = r.stack
    /\ pc' = "executed"
    /\ UNCHANGED <<recorder, in_loop, loop_graph, origin, aside_vars, read,
                   constants, outer_graph,
                   curr_index, body1, body2, vals, inline_lazy_stack, env, val0, shape,
                   node_table, graph_inputs, iter1_inputs, iter1_outputs,
                   iter1_non_inputs, iter2_inputs, iter2_outputs, loop_vars, op, i,
                   executed, passes, calls, raised>>

\* ---- the host asks for a stacked output ----------------------------------
\* loop.get_stacked(variable) after the for statement, on the inline recorder
GetStackedCall ==
    /\ pc \in {"stopped", "read"}
    /\ read.n < MaxReads
    /\ \E variable \in DOMAIN op[1].loop_var_lookup :
          LET r == LazyEvaluation(op[1], TRUE, val, stack)
          IN /\ op' = <<r.loop>>
             /\ val' = r.val
             /\ stack' = r.stack
             /\ read' = [n |-> read.n + 1, variable |-> variable,
                         returned |-> GetStacked(r.loop, variable), runs |-> r.runs,
                         before |-> [val |-> val, stack |-> stack]]
    /\ pc' = "read"
    /\ UNCHANGED <<recorder, in_loop, loop_graph, origin, first_run, aside_vars,
                   constants, outer_graph, curr_index, body1, body2, vals, inline_lazy_stack, env, val0, shape,
                   node_table, graph_inputs, iter1_inputs, iter1_outputs,
                   iter1_non_inputs, iter2_inputs, iter2_outputs, loop_vars, i,
                   executed, passes, calls, raised>>

Next ==
    \/ NextFirst \/ NextSecond \/ NextThird \/ HostBody \/ InlineBind \/ InlineExec
    \/ Execute \/ GetStackedCall

Spec == Init /\ [][Next]_vars

\* ==== the tracer on a body whose host names may hold plain numbers =========
\* for i in frange(L) with a = 1 and b = 2, each a Variable or a plain number
ConstInit ==
    \E p \in Programs, L \in 1..MaxL, consts \in SUBSET {1, 2} :
      \E q \in Variants(p), lazy \in BOOLEAN, base \in BaseRecorders :
        Begin(p, q, L, 0, 1, 2, lazy, base, consts)

ConstSpec == ConstInit /\ [][Next]_vars

\* ==== a traced Loop is differentiated ========================================
untouched_by_vjp ==
    <<read, constants, curr_index, body1, body2, vals, inline_lazy_stack, env, val0, val,
      shape, node_table, graph_inputs, iter1_inputs, iter1_outputs, iter1_non_inputs,
      iter2_inputs, iter2_outputs, loop_vars, op, i, stack, executed, passes, calls, raised,
      recorder, in_loop, loop_graph, origin, first_run, recorder_vars, graph_vars,
      frange_vars, search_vars, gs_vars, mult_vars, rest_vars>>

\* for i in frange(1, 1 + L) on a root graph with a = 1 and b = 2; the body
\* does the same in both passes and the stacks are written
VjpInit ==
    \E p \in {q \in Programs : Len(q) <= 2}, L \in 1..MaxReverse :
        Begin(p, p, L, 1, 1, 2, FALSE, NewRecorder, {})

VjpLoopNode == [kind |-> "Operation", id |-> 2]

\* evaluate_vjp up to the Loop it builds: the outputs in seeded have the
\* cotangent seed, the inputs in wrt are to receive one
EvaluateVjp ==
    /\ pc = "stopped"
    /\ \E seeded \in SUBSET Range(TrueOutputs(op[1])), seed \in 1..MaxSeed,
          wrt \in SUBSET Range(op[1].inputs), stacks_seeded \in BOOLEAN :
          LET loop == op[1]
              cot == Seeded(seeded, seed, Len(val))
              feedbacks == BuildFeedbackData(loop, cot)
              feedback_inputs == {feedbacks[k].external_input : k \in DOMAIN feedbacks}
              ext_in == BuildExternalInputsData(loop, feedback_inputs, wrt)
              feedback_outputs ==
                  {feedbacks[k].external_body_IO : k \in DOMAIN feedbacks}
                  \cup {feedbacks[k].input_stack : k \in DOMAIN feedbacks}
              ext_out == BuildExternalOutputsData(loop, feedback_outputs, cot)
              rev == BuildReversedIterationVariables(loop)
              data == feedbacks \o ext_in.data \o ext_out
          IN /\ seeded # {} \/ stacks_seeded
             /\ wrt \cap feedback_inputs = {}
             /\ vjp_call' = [seeded |-> seeded, seed |-> seed, wrt |-> wrt,
                             stacks_seeded |-> stacks_seeded]
             /\ vjp_data' = data
             /\ vjp_loop_op' =
                   <<VjpLoop(loop,
                             VjpExternalInputs(ext_in.remaining, feedbacks, ext_in.data,
                                               ext_out, stacks_seeded),
                             VjpOutputs(feedbacks, ext_in.data, ext_out), rev,
                             VjpLoopVars(feedbacks, ext_in.data, ext_out))>>
             /\ vjp_carry' = [k \in DOMAIN data |-> data[k].external_input_cotangent]
             /\ cotangents' = cot
    /\ vjp_i' = 0
    /\ added_ops' = <<"Loop">>
    /\ outer_graph' = RecorderAddNode(outer_graph, VjpLoopNode)
    /\ pc' = "vjp"
    /\ UNCHANGED untouched_by_vjp

\* one iteration of the derivative Loop: the body runs and every
\* body_input_cotangent takes the value of its out_cotangent
ReverseStep ==
    /\ pc = "vjp" /\ vjp_i < vjp_loop_op[1].loop.length
    /\ vjp_carry' = VjpBody(op[1], vjp_data, BuildReversedIterationVariables(op[1]),
                            vjp_carry, val, stack, vjp_i, vjp_call.stacks_seeded)
    /\ vjp_i' = vjp_i + 1
    /\ UNCHANGED <<pc, outer_graph, vjp_call, vjp_data, vjp_loop_op, cotangents, added_ops,
                   untouched_by_vjp>>

\* the end of evaluate_vjp: the outputs of the derivative Loop are
\* accumulated into the cotangent map
AccumulateCotangents ==
    /\ pc = "vjp" /\ vjp_i = vjp_loop_op[1].loop.length
    /\ cotangents' = AccumulateAll(cotangents, vjp_data, vjp_carry, 1)
    /\ pc' = "differentiated"
    /\ UNCHANGED <<outer_graph, vjp_call, vjp_data, vjp_loop_op, vjp_i, vjp_carry,
                   added_ops, untouched_by_vjp>>

VjpNext == Next \/ EvaluateVjp \/ ReverseStep \/ AccumulateCotangents

VjpSpec == VjpInit /\ [][VjpNext]_vars

\* ==== recorders, started and stopped, and their graph trees ===============
TracerIdle ==
    /\ pc = "idle" /\ curr_index = 0 /\ body1 = <<>> /\ body2 = <<>> /\ vals = <<>>
    /\ inline_lazy_stack = FALSE /\ env = InitEnv
    /\ val0 = [h \in HostNames |-> 0] /\ val = <<>> /\ shape = <<>>
    /\ node_table = <<>> /\ graph_inputs = <<>>
    /\ iter1_inputs = <<>> /\ iter1_outputs = <<>> /\ iter1_non_inputs = {}
    /\ iter2_inputs = <<>> /\ iter2_outputs = <<>>
    /\ loop_vars = <<>> /\ op = <<>> /\ i = 0 /\ stack = <<>> /\ executed = <<>>
    /\ passes = 0 /\ calls = 0 /\ raised = ""
    /\ recorder = NewRecorder /\ in_loop = <<>> /\ loop_graph = RootNode
    /\ origin = NewRecorder /\ first_run = <<>> /\ read = NoRead
    /\ constants = {} /\ outer_graph = NewGraph(FALSE)

RecorderInit ==
    TracerIdle /\ RecorderIdle /\ GraphIdle /\ FrangeIdle /\ SearchIdle /\ GsIdle /\ DiffIdle /\ RestIdle

\* Recorder.start
Start(r) ==
    /\ LET a == ActivateRecorder(active_recorder, r)
       IN /\ active_recorder' = a.active
          /\ started' = IF a.raised = "" THEN started \cup {r} ELSE started
          /\ last_call' = [NoCall EXCEPT !.name = "start", !.raised = a.raised, !.rec = r]
    /\ UNCHANGED <<recorders, entered, tracer_vars, graph_vars,
                   frange_vars, search_vars, gs_vars, diff_vars, rest_vars>>

\* Recorder.stop
Stop(r) ==
    /\ LET d == DeactivateRecorder(active_recorder, r)
       IN /\ active_recorder' = d.active
          /\ started' = IF d.raised = "" THEN started \ {r} ELSE started
          /\ last_call' = [NoCall EXCEPT !.name = "stop", !.raised = d.raised, !.rec = r]
    /\ UNCHANGED <<recorders, entered, tracer_vars, graph_vars,
                   frange_vars, search_vars, gs_vars, diff_vars, rest_vars>>

\* api.enter_subgraph: get_current_recorder()._enter_subgraph(); without an
\* active node (after an exit at the root) add_child fails on None
ApiEnterSubgraph ==
    /\ LET cur == GetCurrentRecorder(active_recorder)
           r == cur.recorder
       IN IF cur.raised # ""
          THEN /\ last_call' = [NoCall EXCEPT !.name = "enter", !.raised = cur.raised]
               /\ UNCHANGED <<recorders, entered>>
          ELSE IF recorders[r].active_graph_node = NoParent
          THEN /\ last_call' = [NoCall EXCEPT !.name = "enter", !.raised = "AttributeError",
                                               !.rec = r, !.before = recorders[r]]
               /\ UNCHANGED <<recorders, entered>>
          ELSE /\ Len(recorders[r].graph_tree) < MaxGraphs
               /\ recorders' = [recorders EXCEPT ![r] = EnterSubgraph(@)]
               /\ entered' = [entered EXCEPT ![r] = Append(@, recorders[r].active_graph_node)]
               /\ last_call' = [NoCall EXCEPT !.name = "enter", !.rec = r,
                                               !.before = recorders[r]]
    /\ UNCHANGED <<active_recorder, started, tracer_vars, graph_vars,
                   frange_vars, search_vars, gs_vars, diff_vars, rest_vars>>

\* api.exit_subgraph: get_current_recorder()._exit_subgraph(); at the root
\* the parent is None, which becomes the active node before .value fails
ApiExitSubgraph ==
    /\ LET cur == GetCurrentRecorder(active_recorder)
           r == cur.recorder
       IN IF cur.raised # ""
          THEN /\ last_call' = [NoCall EXCEPT !.name = "exit", !.raised = cur.raised]
               /\ UNCHANGED <<recorders, entered>>
          ELSE IF recorders[r].active_graph_node = NoParent
          THEN /\ last_call' = [NoCall EXCEPT !.name = "exit", !.raised = "AttributeError",
                                               !.rec = r, !.before = recorders[r]]
               /\ UNCHANGED <<recorders, entered>>
          ELSE /\ recorders' = [recorders EXCEPT ![r] = ExitSubgraph(@)]
               /\ entered' = [entered EXCEPT ![r] = IF @ = <<>> THEN @ ELSE DropLast(@, 1)]
               /\ last_call' =
                     [NoCall EXCEPT !.name = "exit", !.rec = r, !.before = recorders[r],
                         !.raised = IF recorders[r].active_graph_node = RootNode
                                    THEN "AttributeError" ELSE "",
                         !.expected = IF entered[r] = <<>> THEN NoParent
                                      ELSE entered[r][Len(entered[r])]]
    /\ UNCHANGED <<active_recorder, started, tracer_vars, graph_vars,
                   frange_vars, search_vars, gs_vars, diff_vars, rest_vars>>

RecorderNext ==
    \/ \E r \in Recorders : Start(r)
    \/ \E r \in Recorders : Stop(r)
    \/ ApiEnterSubgraph
    \/ ApiExitSubgraph

RecorderSpec == RecorderInit /\ [][RecorderNext]_vars

\* ==== nodes and edges added to the active graph ============================
\* the root Graph of a recorder, or a subgraph entered with or without
\* add_missing_variables
GraphInit ==
    /\ TracerIdle /\ RecorderIdle /\ FrangeIdle /\ SearchIdle /\ GsIdle /\ DiffIdle /\ RestIdle
    /\ \E amv \in BOOLEAN : active_graph = NewGraph(amv)
    /\ edge_call = NoEdgeCall

AddNode(node) ==
    /\ active_graph' = RecorderAddNode(active_graph, node)
    /\ edge_call' = [NoEdgeCall EXCEPT !.name = "add_node", !.node_from = node,
                                        !.before = active_graph]
    /\ UNCHANGED <<tracer_vars, recorder_vars, frange_vars, search_vars, gs_vars, diff_vars, rest_vars>>

\* edges join two different nodes (a Variable and an Operation)
AddEdgeCall(node_from, node_to) ==
    /\ node_from # node_to
    /\ LET r == RecorderAddEdge(active_graph, node_from, node_to)
       IN /\ active_graph' = r.g
          /\ edge_call' = [name |-> "add_edge", raised |-> r.raised,
                           node_from |-> node_from, node_to |-> node_to,
                           before |-> active_graph]
    /\ UNCHANGED <<tracer_vars, recorder_vars, frange_vars, search_vars, gs_vars, diff_vars, rest_vars>>

GraphNext ==
    \/ \E node \in GraphNodes : AddNode(node)
    \/ \E node_from \in GraphNodes, node_to \in GraphNodes : AddEdgeCall(node_from, node_to)

GraphSpec == GraphInit /\ [][GraphNext]_vars

\* ==== the construction of a frange ==========================================
FrangeSpecInit ==
    /\ TracerIdle /\ RecorderIdle /\ GraphIdle /\ SearchIdle /\ GsIdle /\ DiffIdle /\ RestIdle
    /\ \E a1 \in BoundArgs, a2 \in BoundArgs, inc \in 1..MaxIncrement, vs \in ValsArgs :
          args = [arg1 |-> a1, arg2 |-> a2, increment |-> inc, vals |-> vs]
    /\ made = <<>>

Construct ==
    /\ made = <<>>
    /\ made' = <<FrangeInit(args.arg1, args.arg2, args.increment, args.vals)>>
    /\ UNCHANGED <<args, tracer_vars, recorder_vars, graph_vars, search_vars, gs_vars, diff_vars, rest_vars>>

FrangeNext == Construct

FrangeSpec == FrangeSpecInit /\ [][FrangeNext]_vars

\* ==== a bracketed search =====================================================
SearchInit ==
    /\ TracerIdle /\ RecorderIdle /\ GraphIdle /\ FrangeIdle /\ GsIdle /\ DiffIdle /\ RestIdle
    /\ problem \in Problems
    /\ solve_pc = "init"
    /\ Unsolved

\* _inline_solve_ up to the loop: the bracket of shape (1,) fills every
\* element, and the sign of the residual at the lower end is recorded
SolveBegin ==
    /\ solve_pc = "init"
    /\ LET lower == [j \in Elems |-> problem.bracket[1] * Unit]
           upper == [j \in Elems |-> problem.bracket[2] * Unit]
           r_lower == Residual(problem, lower)
       IN /\ x_lower' = lower
          /\ x_upper' = upper
          /\ r_sign' = [j \in Elems |-> r_lower[j] < 0]
          /\ state_value' = lower
    /\ iter' = 0
    /\ solve_pc' = "loop"
    /\ UNCHANGED <<problem, x_mid, r_update, lower_mask, converged, status_log,
                   jax_states, tracer_vars, recorder_vars, graph_vars, frange_vars,
                   gs_vars, diff_vars, rest_vars>>

\* one pass through the body of the while loop
SolveStep ==
    /\ solve_pc = "loop"
    /\ LET mid == XMid(x_lower, x_upper)
           r == Residual(problem, mid)
           mask == LowerMask(r, r_sign)
           tolerance == [j \in Elems |-> problem.tolerance]
       IN /\ x_mid' = mid
          /\ state_value' = mid
          /\ r_update' = r
          /\ lower_mask' = mask
          /\ x_lower' = [j \in Elems |-> IF mask[j] THEN mid[j] ELSE x_lower[j]]
          /\ x_upper' = [j \in Elems |-> IF ~mask[j] THEN mid[j] ELSE x_upper[j]]
          /\ IF CheckRunTimeTolerance(r, tolerance)
             THEN /\ converged' = TRUE
                  /\ solve_pc' = "done"
                  /\ iter' = iter
                  /\ status_log' = PrintStatus(problem.print_status, status_log, iter, TRUE)
             ELSE /\ iter' = iter + 1
                  /\ converged' = FALSE
                  /\ IF iter + 1 > problem.max_iter
                     THEN /\ solve_pc' = "done"
                          /\ status_log' = PrintStatus(problem.print_status, status_log,
                                                        iter + 1, FALSE)
                     ELSE /\ solve_pc' = "loop"
                          /\ status_log' = status_log
    /\ UNCHANGED <<problem, r_sign, jax_states, tracer_vars, recorder_vars, graph_vars,
                   frange_vars, gs_vars, diff_vars, rest_vars>>

\* the same problem solved by the backend function
SolveJax ==
    /\ solve_pc # "idle"
    /\ jax_states = <<>>
    /\ jax_states' = <<JaxSolve(problem)>>
    /\ UNCHANGED <<problem, solve_pc, x_lower, x_upper, r_sign, x_mid, r_update,
                   lower_mask, iter, converged, state_value, status_log,
                   tracer_vars, recorder_vars, graph_vars, frange_vars, gs_vars, diff_vars, rest_vars>>

SearchNext == SolveBegin \/ SolveStep \/ SolveJax

SearchSpec == SearchInit /\ [][SearchNext]_vars

\* ==== one pass of a Gauss-Seidel solver ======================================
\* the states hold their initial values; the residual graph has been run on them
GsInit ==
    /\ TracerIdle /\ RecorderIdle /\ GraphIdle /\ FrangeIdle /\ SearchIdle /\ DiffIdle /\ RestIdle
    /\ gs_problem \in GsProblems
    /\ gs_value = gs_problem.initial_value
    /\ gs_residual = UpdateResidual(gs_problem, gs_value).residual
    /\ gs_state_update = UpdateResidual(gs_problem, gs_value).state_update
    /\ gs_next = 1

\* one turn of the for loop of _inline_update_states
UpdateState ==
    /\ gs_next \in States
    /\ LET computed == UpdateResidual(gs_problem, gs_value)
           k == gs_next
       IN /\ gs_residual' = computed.residual
          /\ gs_state_update' = computed.state_update
          /\ gs_value' = [gs_value EXCEPT
                 ![k] = NewStateValue(gs_problem.declared[k], gs_value[k],
                                      computed.residual[k], computed.state_update[k])]
    /\ gs_next' = gs_next + 1
    /\ UNCHANGED <<gs_problem, tracer_vars, recorder_vars, graph_vars, frange_vars,
                   search_vars, diff_vars, rest_vars>>

GsNext == UpdateState

GsSpec == GsInit /\ [][GsNext]_vars

\* ==== a Mult operation and its derivative rules ===============================
solver_vars == <<search_vars, gs_vars>>

MultInit ==
    /\ TracerIdle /\ RecorderIdle /\ GraphIdle /\ FrangeIdle /\ SearchIdle /\ GsIdle
    /\ VjpIdle /\ RestIdle
    /\ mult_args \in [x : Operands, y : Operands, vout : Operands]
    /\ mult_out = <<>> /\ mult_jacobian = <<>> /\ mult_vjp = <<>>

ComputeInlineCall ==
    /\ mult_out = <<>>
    /\ mult_out' = <<MultInline(mult_args.x, mult_args.y)>>
    /\ UNCHANGED <<mult_args, mult_jacobian, mult_vjp, tracer_vars, recorder_vars,
                   graph_vars, frange_vars, solver_vars, vjp_vars, rest_vars>>

EvaluateJacobianCall ==
    /\ mult_jacobian = <<>>
    /\ mult_jacobian' = <<MultEvaluateJacobian(mult_args.x, mult_args.y)>>
    /\ UNCHANGED <<mult_args, mult_out, mult_vjp, tracer_vars, recorder_vars,
                   graph_vars, frange_vars, solver_vars, vjp_vars, rest_vars>>

EvaluateVjpCall ==
    /\ mult_vjp = <<>>
    /\ mult_vjp' = <<MultEvaluateVjp(mult_args.x, mult_args.y, mult_args.vout)>>
    /\ UNCHANGED <<mult_args, mult_out, mult_jacobian, tracer_vars, recorder_vars,
                   graph_vars, frange_vars, solver_vars, vjp_vars, rest_vars>>

MultNext == ComputeInlineCall \/ EvaluateJacobianCall \/ EvaluateVjpCall

MultSpec == MultInit /\ [][MultNext]_vars

\* ==== loops traced inside loops ================================================
NestInit ==
    /\ TracerIdle /\ RecorderIdle /\ GraphIdle /\ FrangeIdle /\ SearchIdle /\ GsIdle
    /\ DiffIdle /\ NsIdle /\ AddStateIdle
    /\ nest_recorder = NewRecorder
    /\ nest_inline \in BOOLEAN
    /\ franges = <<>> /\ host = <<>> /\ inline_runs = <<>>

untouched_by_nest ==
    <<tracer_vars, recorder_vars, graph_vars, frange_vars, search_vars, gs_vars, diff_vars,
      ns_vars, add_state_vars>>

\* a tracing error has ended the host program
Aborted == \E f \in DOMAIN franges : franges[f].raised \notin {"", "StopIteration"}

\* the host is outside every for statement, or inside the body of the
\* innermost one
InBody == IF host = <<>> THEN TRUE ELSE franges[host[Len(host)]].curr_index \in {1, 2}

\* "for i in frange(...)": frange.__init__ enters the subgraph; the for
\* statement then calls __next__
NestConstruct ==
    /\ ~Aborted /\ InBody
    /\ Len(franges) < MaxFranges /\ Len(host) < MaxDepth
    /\ nest_recorder.active_graph_node # NoParent
    /\ \E changes \in BOOLEAN :
          franges' = Append(franges,
                            NewNested(nest_recorder, changes,
                                      IF host = <<>> THEN 0 ELSE host[Len(host)]))
    /\ nest_recorder' = EnterSubgraph(nest_recorder)
    /\ host' = Append(host, Len(franges) + 1)
    /\ UNCHANGED <<nest_inline, inline_runs, untouched_by_nest>>

\* __next__ is called on frange f
NextCall(f) ==
    LET r == NextOf(franges[f], nest_recorder, nest_inline)
    IN /\ franges' = [franges EXCEPT ![f] = [r.self EXCEPT !.raised = r.raised,
                                                          !.calls = @ + 1]]
       /\ nest_recorder' = r.rec
       /\ inline_runs' = IF r.ran THEN Append(inline_runs, f) ELSE inline_runs
       /\ host' = IF r.raised = "" THEN host
                  ELSE IF r.raised = "StopIteration"
                  THEN SelectSeq(host, LAMBDA g : g # f)
                  ELSE <<>>
       /\ UNCHANGED <<nest_inline, untouched_by_nest>>

\* the for statement of the innermost loop calls __next__ when the body
\* has run
ForNext == ~Aborted /\ host # <<>> /\ NextCall(host[Len(host)])

\* the host calls __next__ on a frange that has raised StopIteration
NextAgain ==
    /\ ~Aborted
    /\ \E f \in DOMAIN franges :
          /\ franges[f].raised = "StopIteration"
          /\ franges[f].calls < 3 + MaxAgain
          /\ NextCall(f)

NestNext == NestConstruct \/ ForNext

NestSpec == NestInit /\ [][NestNext]_vars

AgainNext == NestNext \/ NextAgain

AgainSpec == NestInit /\ [][AgainNext]_vars

\* ==== namespaces and subgraphs of two recorders ================================
NsInit ==
    /\ TracerIdle /\ RecorderIdle /\ GraphIdle /\ FrangeIdle /\ SearchIdle /\ GsIdle
    /\ DiffIdle /\ NestIdle /\ NsIdle /\ AddStateIdle

untouched_by_ns ==
    <<tracer_vars, recorder_vars, graph_vars, frange_vars, search_vars, gs_vars, diff_vars,
      nest_vars, add_state_vars>>

EnterNamespaceCall(r, name) ==
    /\ Len(ns_recorders[r].namespace_tree) < MaxScopes
    /\ LET done == EnterNamespace(ns_recorders[r], name)
       IN /\ ns_recorders' = [ns_recorders EXCEPT ![r] = done.rec]
          /\ ns_raised' = done.raised
    /\ UNCHANGED <<ns_lists, node_namespace, untouched_by_ns>>

ExitNamespaceCall(r) ==
    /\ ns_recorders[r].hierarchy > 0 - MaxUnder
    /\ LET done == ExitNamespace(ns_recorders[r])
       IN /\ ns_recorders' = [ns_recorders EXCEPT ![r] = done.rec]
          /\ ns_raised' = done.raised
    /\ UNCHANGED <<ns_lists, node_namespace, untouched_by_ns>>

EnterSubgraphCall(r) ==
    /\ Len(ns_recorders[r].graph_tree) < MaxSubgraphs
    /\ LET done == EnterSubgraphOn(ns_recorders[r])
       IN /\ ns_recorders' = [ns_recorders EXCEPT ![r] = done.rec]
          /\ ns_raised' = done.raised
    /\ UNCHANGED <<ns_lists, node_namespace, untouched_by_ns>>

ExitSubgraphCall(r) ==
    /\ LET done == ExitSubgraphOn(ns_recorders[r])
       IN /\ ns_recorders' = [ns_recorders EXCEPT ![r] = done.rec]
          /\ ns_raised' = done.raised
    /\ UNCHANGED <<ns_lists, node_namespace, untouched_by_ns>>

\* a node is constructed while recorder r is active and is given its
\* namespace; "node.namespace = self.active_namespace"
SetNamespaceCall(r, node) ==
    /\ node_namespace[node] = <<>>
    /\ LET done == SetNamespace(ns_recorders[r], ns_lists, node)
       IN /\ ns_lists' = done.lists
          /\ ns_raised' = done.raised
          /\ node_namespace' =
                IF done.raised = ""
                THEN [node_namespace EXCEPT ![node] = <<r, ns_recorders[r].active_namespace>>]
                ELSE node_namespace
    /\ UNCHANGED <<ns_recorders, untouched_by_ns>>

NsNext ==
    \/ \E r \in Recorders, name \in NsNames : EnterNamespaceCall(r, name)
    \/ \E r \in Recorders : ExitNamespaceCall(r)
    \/ \E r \in Recorders : EnterSubgraphCall(r)
    \/ \E r \in Recorders : ExitSubgraphCall(r)
    \/ \E r \in Recorders, node \in NsNodes : SetNamespaceCall(r, node)

NsSpec == NsInit /\ [][NsNext]_vars

\* ==== states are added to a solver ==============================================
AddStateInit ==
    /\ TracerIdle /\ RecorderIdle /\ GraphIdle /\ FrangeIdle /\ SearchIdle /\ GsIdle
    /\ DiffIdle /\ NestIdle /\ NsIdle
    /\ \E kind \in {"BracketedSearch", "GaussSeidel"} : solver = NewSolver(kind)
    /\ add_state_call = NoAddState

untouched_by_add_state ==
    <<tracer_vars, recorder_vars, graph_vars, frange_vars, search_vars, gs_vars, diff_vars,
      nest_vars, ns_vars>>

\* the next state Variable, of shape StateShape, with its residual
NextState == Len(solver.state_to_residual_map) + 1

BracketedAddStateCall ==
    /\ solver.kind = "BracketedSearch" /\ NextState <= MaxAddState
    /\ \E bracket \in BracketArgs :
          LET done == BracketedAddState(solver, NextState, NextState, bracket, NoneArg)
          IN /\ solver' = done.solver
             /\ add_state_call' = [state |-> NextState, raised |-> done.raised,
                                   before |-> solver]
    /\ UNCHANGED untouched_by_add_state

GaussSeidelAddStateCall ==
    /\ solver.kind = "GaussSeidel" /\ NextState <= MaxAddState
    /\ \E state_update \in StateUpdateArgs, initial_value \in InitialValueArgs :
          LET done == GaussSeidelAddState(solver, NextState, NextState, state_update,
                                          initial_value, NoneArg)
          IN /\ solver' = done.solver
             /\ add_state_call' = [state |-> NextState, raised |-> done.raised,
                                   before |-> solver]
    /\ UNCHANGED untouched_by_add_state

AddStateNext == BracketedAddStateCall \/ GaussSeidelAddStateCall

AddStateSpec == AddStateInit /\ [][AddStateNext]_vars

\* ==== claims ==============================================================
Stopped == pc = "stopped"
Failed == pc = "failed"
SameBody == body1 = body2
Direct == DirectLoop(val0, body1, vals[1])

\* C1: for every body traced with frange over L >= 1 values, every host
\* variable ends, after compute_inline, with the value that executing the
\* host body L times directly gives it.
C1_TraceEqualsDirect ==
    (Stopped /\ SameBody) => \A h \in HostNames : val[env[h]] = Direct[h]

\* the feedback triples have pairwise different body_inputs
DistinctBodyInputs(lvs) ==
    \A x, y \in DOMAIN lvs : lvs[x][1] = lvs[y][1] => x = y

InOrder(seq) == \A k \in DOMAIN seq : seq[k] = k - 1

\* C2: compute_inline runs the iterations in the order 0, 1, ..., L-1; when
\* iteration i executes the body graph, every iteration variable holds
\* vals[i] and every feedback body_input holds external_initial's value
\* (i = 0) or the body_output value of iteration i-1 (i > 0).
C2_InlineIterationState ==
    /\ InOrder(executed)
    /\ Stopped => Len(executed) = Len(vals[1])
    /\ pc = "exec" =>
        /\ Len(executed) = i
        /\ \A n \in DOMAIN op[1].iter_vars : val[op[1].iter_vars[n]] = op[1].vals[n][i + 1]
        /\ \A k \in DOMAIN op[1].loop_vars :
              val[op[1].loop_vars[k][1]] =
                 IF i = 0 THEN val[op[1].loop_vars[k][2]] ELSE val[op[1].loop_vars[k][3]]

\* C3: the host body runs exactly twice at trace time for every L >= 1:
\* __next__ yields on its first two calls, post_iteration_one has run
\* before the second yield (pass 1's Operations are recorded and deleted),
\* and the third call runs post_iteration_two and ends the iteration with
\* StopIteration (the ValueError of post_iteration_two's count checks is
\* the only other way out of the third call).
C3_TwoPasses ==
    /\ passes <= 2
    /\ pc = "body" => calls \in {1, 2} /\ passes = calls - 1 /\ raised = ""
    /\ (pc = "body" /\ calls = 2) =>
          /\ OpsOf(node_table) = <<>>
          /\ Len(iter1_outputs) = Len(SelectSeq(body1, LAMBDA st : st.kind # "Var"))
    /\ pc \in {"bind", "exec", "stopped", "read", "failed"} => calls = 3 /\ passes = 2
    /\ Stopped => raised = "StopIteration" /\ op # <<>>
    /\ raised = "StopIteration" => pc \in {"stopped", "read", "traced", "executed"}
    /\ pc \in {"traced", "executed"} => calls = 3 /\ passes = 2 /\ op # <<>>
    /\ Failed => raised = "ValueError"

C3_Witness == Stopped /\ Len(vals[1]) = 1 /\ passes = 2 /\ calls = 3

\* C4 (as claimed): in the second tracing pass the IterationVariable holds
\* its second value vals[1].
C4_AdvancedToSecondValue ==
    (pc = "body" /\ passes = 1 /\ Len(vals[1]) >= 2) => val[IterVar] = vals[1][2]

\* C4 (amended): __next__ never rebinds the IterationVariable, which holds
\* its first value vals[0] through both tracing passes; only
\* compute_inline rebinds it.
C4_KeepsFirstValue ==
    pc \in {"call", "body"} => val[IterVar] = vals[1][1]

C4_Witness == pc = "body" /\ passes = 1 /\ Len(vals[1]) >= 2 /\ vals[1][2] # vals[1][1]

\* iter2_outputs without the markers appended after the triples were formed
Unmarked(outs) == SelectSeq(outs, LAMBDA v : v # ErrorMarker)

\* C5: when the number of body inputs or of body outputs of pass 2 differs
\* from pass 1, post_iteration_two raises ValueError before any feedback
\* triple is formed and before a Loop is built or executed.
C5_CountMismatchRaises ==
    /\ calls = 3 =>
          (Failed <=> (\/ Len(iter1_inputs) # Len(iter2_inputs)
                       \/ Len(iter1_outputs) # Len(Unmarked(iter2_outputs))))
    /\ Failed => /\ raised = "ValueError"
                 /\ loop_vars = <<>> /\ op = <<>>
                 /\ executed = <<>> /\ stack = <<>>

C5_Witness ==
    Failed /\ Len(iter1_inputs) = Len(iter2_inputs) /\ Len(iter1_outputs) # Len(iter2_outputs)

\* the operation types created by a pass of the body
OpKinds(body) ==
    LET sel == SelectSeq(body, LAMBDA st : st.kind # "Var")
    IN [k \in DOMAIN sel |-> sel[k].kind]

\* C6: when the sequence of operation types of pass 2 differs from pass 1,
\* tracing fails with an error and no Loop is built.
C6_TypeChangeRaises ==
    (calls = 3 /\ OpKinds(body1) # OpKinds(body2)) => (Failed /\ op = <<>>)

\* the input positions whose pass-1 and pass-2 inputs are different
\* Variables, the pass-2 input being an output of pass 1
FeedbackPositions ==
    {k \in DOMAIN iter1_inputs :
        /\ k \in DOMAIN iter2_inputs
        /\ iter1_inputs[k] # iter2_inputs[k]
        /\ iter2_inputs[k] \in Range(iter1_outputs)}

Built == op # <<>>

\* C7 (as claimed): each such position yields the triple (iter-2 input,
\* iter-1 input, matching iter-1 output).
C7_TripleEndsInIter1Output ==
    Built => \A k \in FeedbackPositions :
        \E j \in DOMAIN iter1_outputs :
            /\ iter1_outputs[j] = iter2_inputs[k]
            /\ <<iter2_inputs[k], iter1_inputs[k], iter1_outputs[j]>> \in Range(loop_vars)

\* C7 (amended): each such position yields the triple (iter-2 input,
\* iter-1 input, the iter-2 output at the position the iter-2 input has
\* among the iter-1 outputs); body_output is never body_input itself.
C7_TripleEndsInIter2Output ==
    Built =>
        /\ \A k \in FeedbackPositions :
              \E j \in DOMAIN iter1_outputs :
                  /\ iter1_outputs[j] = iter2_inputs[k]
                  /\ <<iter2_inputs[k], iter1_inputs[k], iter2_outputs[j]>> \in Range(loop_vars)
        /\ \A t \in Range(loop_vars) : t[3] # t[1] /\ t[3] \notin Range(iter1_outputs)

C7_Witness == Built /\ FeedbackPositions # {} /\ loop_vars # <<>>

\* C8: the feedback triples hold no two equal triples, and each comes from
\* an input position whose pass-1 and pass-2 inputs are different
\* Variables; a body with positionally identical inputs yields no triple
\* and leaves the Variables defined outside the loop with their pre-loop
\* values.
C8_TriplesDistinctAndNeeded ==
    Built =>
        /\ \A x, y \in DOMAIN loop_vars : loop_vars[x] = loop_vars[y] => x = y
        /\ \A t \in Range(loop_vars) :
              \E k \in DOMAIN iter1_inputs :
                  /\ iter1_inputs[k] # iter2_inputs[k]
                  /\ t[1] = iter2_inputs[k] /\ t[2] = iter1_inputs[k]
        /\ iter1_inputs = iter2_inputs =>
              /\ loop_vars = <<>>
              /\ \A h \in HostNames : val[InitEnv[h]] = val0[h]
              /\ (Stopped /\ SameBody) => \A h \in HostNames : val[env[h]] = Direct[h]

\* two input positions gave the same triple, which is listed once
C8_Witness ==
    /\ Stopped
    /\ \E k1, k2 \in FeedbackPositions :
          /\ k1 # k2
          /\ iter1_inputs[k1] = iter1_inputs[k2]
          /\ iter2_inputs[k1] = iter2_inputs[k2]
    /\ Len(loop_vars) = 1

C8_WitnessNoFeedback ==
    Stopped /\ iter1_inputs # <<>> /\ iter1_inputs = iter2_inputs /\ loop_vars = <<>>

\* C9: a Loop with n feedback triples has its stacked Variables as its last
\* n outputs in triple order: get_stacked(body_output of triple k) is
\* outputs[len(outputs) - n + k], of shape (L,) + the body variable's shape.
C9_StackedAreLastOutputs ==
    Built =>
        LET loop == op[1]
            n == Len(loop.loop_vars)
        IN \A k \in 1..n :
              LET stacked == loop.outputs[Len(loop.outputs) - n + k]
              IN /\ GetStacked(loop, loop.loop_vars[k][3]) = stacked
                 /\ shape[stacked] = <<Len(loop.vals[1])>> \o shape[loop.loop_vars[k][1]]

\* C10: for the same Loop and input values, compute_inline (with
\* inline_lazy_stack False) and compute_jax return the same pass-through
\* outputs and the same stacked history, entry by entry.
C10_InlineEqualsJax ==
    (Stopped /\ ~op[1].inline_lazy_stack) =>
        LET loop == op[1]
            jax == ComputeJax(loop, [k \in DOMAIN loop.inputs |-> val[loop.inputs[k]]], Len(val))
            outs == TrueOutputs(loop)
        IN /\ jax.carry = [k \in DOMAIN outs |-> val[outs[k]]]
           /\ jax.stack = stack

C10_Witness ==
    /\ Stopped /\ ~op[1].inline_lazy_stack
    /\ Len(op[1].loop_vars) >= 1 /\ Len(vals[1]) >= 2
    /\ \E k \in DOMAIN stack : stack[k][1] # stack[k][2]

Executed == pc = "executed"

\* C11: executing the unchanged graph a second time gives the results of the
\* first time: the second compute_inline, run on the values the first left
\* behind, returns the same pass-through outputs and the same stacked
\* histories, and the host variables keep their values.
C11_SecondRunSameResult ==
    Executed =>
        LET outs == TrueOutputs(op[1])
        IN /\ \A k \in DOMAIN outs : val[outs[k]] = first_run[1].val[outs[k]]
           /\ stack = first_run[1].stack
           /\ \A h \in HostNames : val[env[h]] = first_run[1].val[env[h]]

C11_Witness ==
    /\ Executed /\ ~op[1].inline_lazy_stack
    /\ Len(op[1].loop_vars) >= 1 /\ Len(vals[1]) >= 2
    /\ \E k \in DOMAIN stack : stack[k][1] # stack[k][2]
    /\ \E k \in DOMAIN loop_vars : val[loop_vars[k][1]] # val[loop_vars[k][2]]

\* C13: once the third __next__ has raised StopIteration, the recorder's
\* active graph is the graph that was active when the frange was
\* constructed, _in_loop has the value it had before the first __next__,
\* and the body graph is a child of that graph, held by the one Loop built.
C13_LoopLeavesRecorderAsFound ==
    raised = "StopIteration" =>
        /\ recorder.active_graph_node = origin.active_graph_node
        /\ recorder.in_loop = origin.in_loop
        /\ recorder.graph_tree[loop_graph] = origin.active_graph_node
        /\ Len(op) = 1 /\ op[1].graph = node_table

C13_Witness ==
    /\ raised = "StopIteration"
    /\ origin.in_loop /\ origin.active_graph_node # RootNode
    /\ OpsOf(node_table) # <<>>

\* C12: an _enter_subgraph creates a new child Graph under the node that
\* was active and makes it active; the matching _exit_subgraph makes the
\* node active again that was active before the enter.
C12_EnterExitBalanced ==
    LET r == last_call.rec
    IN /\ (last_call.name = "enter" /\ last_call.raised = "") =>
              /\ recorders[r].graph_tree =
                    Append(last_call.before.graph_tree, last_call.before.active_graph_node)
              /\ recorders[r].active_graph_node = Len(last_call.before.graph_tree) + 1
              /\ recorders[r].graph_tree[recorders[r].active_graph_node] =
                    last_call.before.active_graph_node
       /\ (last_call.name = "exit" /\ last_call.expected # NoParent) =>
              /\ last_call.raised = ""
              /\ recorders[r].active_graph_node = last_call.expected
              /\ recorders[r].graph_tree = last_call.before.graph_tree
       /\ \A x \in Recorders :
              (entered[x] = <<>> /\ recorders[x].active_graph_node # NoParent) =>
                  recorders[x].active_graph_node = RootNode

\* an exit from a Graph two levels below the root
C12_Witness ==
    /\ last_call.name = "exit" /\ last_call.raised = ""
    /\ last_call.expected # NoParent /\ last_call.expected # RootNode
    /\ Len(recorders[last_call.rec].graph_tree) = MaxGraphs

\* C14: at most one Recorder is current: get_current_recorder returns the
\* one Recorder that was started and not stopped since, and raises
\* ValueError when there is none.
C14_OneCurrentRecorder ==
    /\ Cardinality(started) <= 1
    /\ started = {} => GetCurrentRecorder(active_recorder).raised = "ValueError"
    /\ \A r \in started :
          GetCurrentRecorder(active_recorder) = [raised |-> "", recorder |-> r]

\* a second recorder is current after the first was stopped
C14_Witness ==
    /\ started = {2} /\ last_call.name = "start" /\ last_call.raised = ""
    /\ Len(recorders[1].graph_tree) > 1

\* C15: _add_edge(node_from, node_to) raises ValueError whenever node_to is
\* not registered in the active graph, and whenever node_from is not
\* registered unless the graph has add_missing_variables set and node_from
\* is a Variable; then node_from is registered and made a boundary input
\* before the edge is added.  Otherwise the edge is added.
C15_AddEdgeRaises ==
    edge_call.name = "add_edge" =>
        LET b == edge_call.before
            f == edge_call.node_from
            t == edge_call.node_to
            exempt == b.add_missing_variables /\ IsVariable(f)
        IN /\ t \notin b.node_table => edge_call.raised = "ValueError"
           /\ (f \notin b.node_table /\ ~exempt) =>
                 edge_call.raised = "ValueError" /\ active_graph = b
           /\ (f \notin b.node_table /\ exempt) =>
                 /\ f \in active_graph.node_table /\ f \in active_graph.inputs
                 /\ edge_call.raised = "" <=> t \in b.node_table
           /\ (f \in b.node_table /\ t \in b.node_table) => edge_call.raised = ""
           /\ edge_call.raised = "" =>
                 /\ active_graph.edges = b.edges \cup {<<f, t>>}
                 /\ {f, t} \subseteq active_graph.node_table
           /\ edge_call.raised # "" => active_graph.edges = b.edges

\* a missing Variable was admitted and the edge added
C15_Witness ==
    /\ edge_call.name = "add_edge" /\ edge_call.raised = ""
    /\ edge_call.node_from \notin edge_call.before.node_table
    /\ edge_call.node_from \in active_graph.inputs
    /\ <<edge_call.node_from, edge_call.node_to>> \in active_graph.edges

\* the bounds a frange call names: arg1 alone is the upper bound over 0
GivenLower == IF args.arg2 = PyNone THEN PyInt(0) ELSE args.arg1
GivenUpper == IF args.arg2 = PyNone THEN args.arg1 ELSE args.arg2
LowerAboveUpper ==
    /\ GivenLower.ty = "int" /\ GivenUpper.ty = "int"
    /\ GivenLower.n > GivenUpper.n
NonIntInVals ==
    \/ args.vals.ty = "list" /\ ~AllInt(args.vals)
    \/ args.vals.ty = "tuple" /\ \E k \in DOMAIN args.vals.items : ~AllInt(args.vals.items[k])

\* C16: constructing a frange raises ValueError when neither a bound nor
\* vals is given, when the lower bound is greater than the upper bound, and
\* when an element of vals (a list, or a list of a tuple of lists) is not
\* an integer.
C16_ConstructorRaises ==
    made # <<>> =>
        /\ (args.arg1 = PyNone /\ args.arg2 = PyNone /\ args.vals = PyNone) =>
              made[1].raised = "ValueError"
        /\ LowerAboveUpper => made[1].raised = "ValueError"
        /\ NonIntInVals => made[1].raised = "ValueError"

\* C17: a frange constructed with vals given as a list of integers has a
\* vals attribute equal to that list.
C17_ValsIsTheList ==
    (made # <<>> /\ args.vals.ty = "list" /\ AllInt(args.vals) /\ made[1].raised = "") =>
        made[1].vals = args.vals

\* the number of passes through the loop body so far
Passes == IF solve_pc = "done" /\ converged THEN iter + 1 ELSE iter

\* C18: for every element with initial bracket lo <= hi, each iteration
\* replaces exactly one of the two bracket ends by the midpoint, so
\* lower <= upper holds after every iteration and the bracket width after k
\* iterations equals (hi - lo) / 2^k.
C18_BracketHalves ==
    (solve_pc \in {"loop", "done"} /\ problem.bracket[1] <= problem.bracket[2]) =>
        \A j \in Elems :
            /\ x_lower[j] <= x_upper[j]
            /\ (x_upper[j] - x_lower[j]) * 2 ^ Passes
                   = (problem.bracket[2] - problem.bracket[1]) * Unit
            /\ Passes >= 1 =>
                  /\ lower_mask[j] => x_lower[j] = x_mid[j]
                  /\ ~lower_mask[j] => x_upper[j] = x_mid[j]

C18_Witness ==
    /\ solve_pc = "done" /\ Passes = MaxIter + 1
    /\ problem.bracket = <<0, 2>>
    /\ lower_mask[1] /\ ~lower_mask[2]
    /\ x_upper[1] - x_lower[1] = 2

\* ceil(log2((hi - lo) / tolerance)) for hi - lo >= tolerance
IterationBound ==
    LET width == (problem.bracket[2] - problem.bracket[1]) * Unit
    IN CHOOSE n \in 0..(MaxIter + 2) :
           /\ problem.tolerance * 2 ^ n >= width
           /\ \A m \in 0..(n - 1) : problem.tolerance * 2 ^ m < width

\* every element's residual depends on that element alone, is monotonic, and
\* has different signs at lo and hi
SignChange ==
    /\ ~problem.coupled
    /\ LET r_lo == Residual(problem, [j \in Elems |-> problem.bracket[1] * Unit])
           r_hi == Residual(problem, [j \in Elems |-> problem.bracket[2] * Unit])
       IN \A j \in Elems : (r_lo[j] < 0 /\ r_hi[j] > 0) \/ (r_lo[j] > 0 /\ r_hi[j] < 0)

\* C19: given state in [lo, hi] with a monotonic residual whose signs at lo
\* and hi differ, the solver meets the tolerance within
\* ceil(log2((hi - lo) / tolerance)) iterations.
C19_ConvergesWithinBound ==
    (/\ solve_pc \in {"loop", "done"}
     /\ problem.bracket[1] < problem.bracket[2]
     /\ SignChange
     /\ problem.max_iter >= IterationBound) =>
        /\ iter <= IterationBound
        /\ solve_pc = "done" => converged

\* the residual of element j is a function of element j alone
DependsOnlyOnItself(j) == ~(problem.coupled /\ j = 1)

\* C20: the sign of the residual at the lower bound is recorded once and,
\* for every element whose residual depends only on that element, after
\* every iteration (residual at the current lower bound < 0) equals the
\* recorded sign.
C20_LowerSignFixed ==
    solve_pc \in {"loop", "done"} =>
        \A j \in Elems :
            DependsOnlyOnItself(j) => (Residual(problem, x_lower)[j] < 0) = r_sign[j]

C20_Witness ==
    /\ solve_pc = "done" /\ problem.coupled /\ Passes >= 2
    /\ DependsOnlyOnItself(2) /\ r_sign[2]
    /\ x_lower[2] > problem.bracket[1] * Unit
    /\ x_upper[2] < problem.bracket[2] * Unit

\* C21: when the search stops, the value left in each state is the midpoint
\* of that state's final bracket, in the inline solve and in the backend
\* solve.
C21_StateIsFinalMidpoint ==
    /\ solve_pc = "done" =>
          \A j \in Elems : 2 * state_value[j] = x_lower[j] + x_upper[j]
    /\ jax_states # <<>> =>
          \A j \in Elems :
              2 * jax_states[1].states[j] = jax_states[1].x_lower[j] + jax_states[1].x_upper[j]

\* C22: the residual is evaluated at no more than max_iter midpoints before
\* the search stops, in the inline solve and in the backend solve.
C22_AtMostMaxIterMidpoints ==
    /\ Passes <= problem.max_iter
    /\ jax_states # <<>> => jax_states[1].i <= problem.max_iter

\* C23: when the inline search exhausts its iterations without meeting the
\* tolerance it stops with converged = False, prints the status only when
\* print_status is set, and leaves the states at the last evaluated midpoint.
C23_ExhaustedIsNotFatal ==
    /\ iter > problem.max_iter => solve_pc = "done"
    /\ (/\ solve_pc = "done"
        /\ ~CheckRunTimeTolerance(r_update, [j \in Elems |-> problem.tolerance])) =>
          /\ converged = FALSE
          /\ iter = problem.max_iter + 1
          /\ status_log = IF problem.print_status
                          THEN <<[iter |-> iter, converged |-> FALSE]>>
                          ELSE <<>>
          /\ state_value = x_mid
          /\ r_update = Residual(problem, x_mid)
          /\ \A j \in Elems : x_mid[j] \in {x_lower[j], x_upper[j]}

C23_Witness ==
    /\ solve_pc = "done" /\ ~converged /\ ~problem.print_status
    /\ status_log = <<>>
    /\ iter = MaxIter + 1
    /\ x_lower[1] < x_upper[1]

\* the update rule of the docstring: x_k_new = x_k_state_update(...), which is
\* the state less its residual where no state_update was declared
DocUpdate(k, x) ==
    IF gs_problem.declared[k]
    THEN gs_problem.c[k] + x[1] + x[2] + x[3] + 1
    ELSE gs_problem.c[k] + gs_problem.w * SumOver(x, Others(k))

\* x0_new = x0_state_update(x0_old, x1_old, x2_old), x1_new =
\* x1_state_update(x0_new, x1_old, x2_old), x2_new = x2_state_update(x0_new,
\* x1_new, x2_old)
DocNew1 == DocUpdate(1, gs_problem.initial_value)
DocNew2 == DocUpdate(2, [gs_problem.initial_value EXCEPT ![1] = DocNew1])
DocNew3 == DocUpdate(3, [gs_problem.initial_value EXCEPT ![1] = DocNew1, ![2] = DocNew2])
DocNew == <<DocNew1, DocNew2, DocNew3>>

\* C24: one GaussSeidel pass updates the states in the order they were
\* added; the update of state k sees the new values of the states before it
\* and the old values of state k and the states after it; the update is
\* state - residual when no state_update was declared and the state_update's
\* value otherwise.
C24_GaussSeidelPass ==
    gs_next \in 1..4 =>
        \A k \in States :
            gs_value[k] = IF k < gs_next THEN DocNew[k] ELSE gs_problem.initial_value[k]

C24_Witness ==
    /\ gs_next = 4
    /\ gs_problem.declared = <<FALSE, TRUE, FALSE>>
    /\ gs_problem.w = 1
    /\ DocNew1 # gs_problem.initial_value[1]
    /\ gs_value[3] # DocUpdate(3, gs_problem.initial_value)

\* C30: with inline_lazy_stack False, entry i of each stacked output equals
\* the value the feedback body_input holds when iteration i begins: entry 0
\* is external_initial's value, entry i > 0 is the body_output of iteration
\* i - 1, and the body_output of the last iteration is in no entry.
C30_StackHoldsValueAtIterationStart ==
    (pc = "exec" /\ ~op[1].inline_lazy_stack) =>
        \A ii \in 1..op[1].num_loop_vars :
            /\ Len(stack[ii]) = op[1].length
            /\ stack[ii][i + 1] = IF i = 0 THEN val[op[1].loop_vars[ii][2]]
                                  ELSE val[op[1].loop_vars[ii][3]]
            /\ \A later \in (i + 2)..op[1].length : stack[ii][later] = 0

\* C29: while the Loop's inline_lazy_stack flag is True compute_inline never
\* allocates or writes the stacked outputs; the first get_stacked call
\* clears the flag and, on an inline recorder, re-runs the loop exactly once
\* so that all L entries of every stacked output are filled; later
\* get_stacked calls return the stacked Variable without re-running the loop.
C29_LazyStackFilledOnFirstRead ==
    /\ (op # <<>> /\ op[1].inline_lazy_stack) =>
          /\ read.n = 0
          /\ stack = [k \in 1..op[1].num_loop_vars |-> <<>>]
    /\ read.n >= 1 =>
          LET loop == op[1]
              n == loop.num_loop_vars
              jax == ComputeJax(loop, [k \in DOMAIN loop.inputs |-> val[loop.inputs[k]]],
                                Len(val))
          IN /\ ~loop.inline_lazy_stack
             /\ \A k \in 1..n : Len(stack[k]) = loop.length
             /\ stack = jax.stack
             /\ read.returned \in {loop.outputs[Len(loop.outputs) - n + k] : k \in 1..n}
             /\ read.runs = IF read.n = 1 /\ inline_lazy_stack THEN 1 ELSE 0
             /\ read.runs = 0 => (stack = read.before.stack /\ val = read.before.val)
             /\ (read.n = 1 /\ inline_lazy_stack) =>
                   read.before.stack = [k \in 1..n |-> <<>>]

C29_Witness ==
    /\ read.n = 2 /\ inline_lazy_stack
    /\ Len(vals[1]) >= 2
    /\ \E k \in DOMAIN stack : stack[k][1] # stack[k][2]

\* the unit step of element k of an operand
UnitStep(k) == [j \in Flat |-> IF j = k THEN 1 ELSE 0]

Plus(u, v) == [k \in Flat |-> u[k] + v[k]]

Dot(u, v) == u[1] * v[1] + u[2] * v[2]

\* vout applied to the change of out = x*y under a unit step of element k of
\* x (of y): the product is linear in each operand, so the difference
\* quotient is exact
PerturbX(k) ==
    Dot(mult_args.vout, Plus(MultInline(Plus(mult_args.x, UnitStep(k)), mult_args.y),
                             [j \in Flat |-> 0 - mult_out[1][j]]))
PerturbY(k) ==
    Dot(mult_args.vout, Plus(MultInline(mult_args.x, Plus(mult_args.y, UnitStep(k))),
                             [j \in Flat |-> 0 - mult_out[1][j]]))

\* C27: the cotangents evaluate_vjp(x, y, vout) of Mult returns are, in this
\* order, vout times d(out)/dx = y and vout times d(out)/dy = x: they agree
\* with evaluate_jacobian and with the perturbation of each input.
C27_MultVjpMatchesJacobian ==
    (mult_out # <<>> /\ mult_jacobian # <<>> /\ mult_vjp # <<>>) =>
        /\ mult_jacobian[1] = <<mult_args.y, mult_args.x>>
        /\ mult_vjp[1][1] = Times(mult_args.vout, mult_jacobian[1][1])
        /\ mult_vjp[1][2] = Times(mult_args.vout, mult_jacobian[1][2])
        /\ \A k \in Flat : /\ mult_vjp[1][1][k] = PerturbX(k)
                            /\ mult_vjp[1][2][k] = PerturbY(k)

OuterLoops == {node \in outer_graph.node_table : node \in {LoopNode, VjpLoopNode}}

\* the outputs of the Loop that are the body_output or the stacked output of
\* a feedback
FeedbackOutputsOf(loop) ==
    {loop.loop_vars[k][3] : k \in DOMAIN loop.loop_vars}
    \cup {loop.loop_var_lookup[loop.loop_vars[k][3]] : k \in DOMAIN loop.loop_vars}

FeedbackInputsOf(loop) == {loop.loop_vars[k][2] : k \in DOMAIN loop.loop_vars}

\* C25: differentiating a Loop of length L adds exactly one new Loop to the
\* outer graph; the new Loop has length L, iterates the original iteration
\* values in reverse order (index L-1 down to 0), has the original Loop as
\* parent, and carries one feedback triple for each original feedback, each
\* external input receiving a cotangent and each externally seeded output.
C25_DerivativeIsOneReversedLoop ==
    pc \in {"vjp", "differentiated"} =>
        LET loop == op[1]
            new == vjp_loop_op[1].loop
            L == loop.length
        IN /\ Cardinality({k \in DOMAIN added_ops : added_ops[k] = "Loop"}) = 1
           /\ OuterLoops = {LoopNode, VjpLoopNode}
           /\ new.length = L
           /\ Len(new.vals) = Len(loop.vals) + 1
           /\ \A k \in 1..L :
                 /\ new.vals[1][k] = L - k
                 /\ \A n \in DOMAIN loop.vals : new.vals[n + 1][k] = loop.vals[n][L + 1 - k]
           /\ vjp_loop_op[1].parent = LoopNode
           /\ new.num_loop_vars =
                 Len(loop.loop_vars)
                 + Cardinality(vjp_call.wrt \ FeedbackInputsOf(loop))
                 + Cardinality(vjp_call.seeded \ FeedbackOutputsOf(loop))
           /\ \A k \in DOMAIN loop.loop_vars :
                 new.loop_vars[k][1] = Named("body_input_cotangent", loop.loop_vars[k][3])
           /\ \A v \in (vjp_call.wrt \ FeedbackInputsOf(loop))
                      \cup (vjp_call.seeded \ FeedbackOutputsOf(loop)) :
                 \E k \in DOMAIN new.loop_vars :
                     /\ k > Len(loop.loop_vars)
                     /\ new.loop_vars[k][1] = Named("body_input_cotangent", v)

C25_Witness ==
    /\ pc = "differentiated"
    /\ op[1].length = 3
    /\ Len(op[1].loop_vars) >= 1
    /\ vjp_call.wrt # {}
    /\ vjp_call.seeded \ FeedbackOutputsOf(op[1]) # {}

\* the body s := s + x, the host name s being a or b and x the other one
SumBody(s) == <<[dst |-> s, kind |-> "Add", l |-> "a", r |-> "b"]>>

\* the final sum is differentiated with seed 1 with respect to x
SumDifferentiated(s) ==
    /\ pc = "differentiated"
    /\ body1 = SumBody(s)
    /\ vjp_call.seeded = {env[s]} /\ vjp_call.seed = 1 /\ ~vjp_call.stacks_seeded
    /\ InitEnv[OtherName(s)] \in vjp_call.wrt

\* C26: for a Loop of L iterations whose body adds an external input x to a
\* scalar running sum, differentiating the final sum with respect to x with
\* seed 1 yields cotangent exactly L for x.
C26_SumCotangentIsLength ==
    \A s \in HostNames :
        SumDifferentiated(s) =>
            /\ Check(cotangents, InitEnv[OtherName(s)])
            /\ cotangents.value[InitEnv[OtherName(s)]] = Len(vals[1])

C26_Witness ==
    /\ SumDifferentiated("a")
    /\ Len(vals[1]) = 3
    /\ cotangents.value[2] = 3


\* the entries of the derivative's data that are externally seeded outputs
SeededOutputEntries == {k \in DOMAIN vjp_data : vjp_data[k].kind = "output"}

\* C31: in the reverse Loop built by evaluate_vjp, the cotangent of an
\* externally seeded (non-feedback) output enters the reverse body with its
\* outer cotangent value only on the first reverse step (original iteration
\* L-1) and is zero on every later reverse step.
C31_SeedEntersOnFirstStepOnly ==
    pc = "vjp" =>
        \A k \in SeededOutputEntries :
            LET o == vjp_data[k].external_body_IO
                new == vjp_loop_op[1].loop
            IN /\ new.loop_vars[k][1] = Named("body_input_cotangent", o)
               /\ new.loop_vars[k][2] = Named("external_input_cotangent", o)
               /\ Check(cotangents, o) /\ cotangents.value[o] # 0
               /\ vjp_i = 0 =>
                      /\ vjp_carry[k] = cotangents.value[o]
                      /\ new.vals[1][1] = op[1].length - 1
               /\ vjp_i >= 1 => vjp_carry[k] = 0

C31_Witness ==
    /\ pc = "vjp"
    /\ vjp_i = 2
    /\ op[1].length = 3
    /\ \E k \in SeededOutputEntries :
          /\ vjp_data[k].external_input_cotangent = 2
          /\ vjp_carry[k] = 0

\* C35: if constructing a frange raises an exception for any arguments
\* (including an empty range such as frange(0) or equal lower and upper
\* bounds), the recorder's active graph after the failure is the graph that
\* was active before the call: no child subgraph is left entered.
C35_FailedConstructorLeavesGraph ==
    (made # <<>> /\ made[1].raised # "") => ~made[1].in_subgraph

\* the franges that are being traced: __next__ has been called and has not
\* raised yet
Tracing == {f \in DOMAIN franges : franges[f].curr_index >= 1 /\ franges[f].raised = ""}

\* the franges constructed outside every other loop
Outermost == {f \in DOMAIN franges : franges[f].enclosing = 0}

\* C32: with an inline recorder and nested frange loops, the recorder's
\* _in_loop flag is True throughout the tracing of any loop, and
\* compute_inline is invoked at the end of tracing only for the outermost
\* loop (the one whose saved pre-loop _in_loop value is False); finishing an
\* inner loop never triggers a numeric run of that inner loop on its own.
C32_InlineRunOnlyForOutermost ==
    nest_inline =>
        /\ Tracing # {} => nest_recorder.in_loop
        /\ \A f \in DOMAIN franges :
              /\ franges[f].in_loop # <<>> => (franges[f].in_loop[1] <=> f \notin Outermost)
              /\ franges[f].raised = "StopIteration" =>
                    (f \in Range(inline_runs) <=> f \in Outermost)
        /\ Range(inline_runs) \subseteq Outermost
        /\ \A j, k \in DOMAIN inline_runs : inline_runs[j] = inline_runs[k] => j = k

C32_Witness ==
    /\ nest_inline
    /\ inline_runs # <<>>
    /\ \E f \in DOMAIN franges :
          /\ franges[f].raised = "StopIteration"
          /\ franges[f].enclosing = inline_runs[1]

\* C33: once a frange iterator has raised StopIteration, every further
\* __next__ call raises StopIteration again without changing any state: it
\* does not run post_iteration_two a second time, does not exit another
\* subgraph on the recorder, and does not build a second Loop operation.
C33_ExhaustedIteratorStaysExhausted ==
    [][\A f \in DOMAIN franges :
          (franges[f].raised = "StopIteration" /\ franges'[f].calls > franges[f].calls) =>
              /\ franges'[f] = [franges[f] EXCEPT !.calls = @ + 1]
              /\ nest_recorder' = nest_recorder
              /\ inline_runs' = inline_runs]_vars

\* C34: if loop tracing fails in post_iteration_two because the input or
\* output count changed between passes, then after the ValueError the
\* recorder's active graph is the graph that was active before the frange
\* was constructed and the recorder's _in_loop flag has its pre-loop value.
C34_FailedTraceLeavesRecorderAsFound ==
    (/\ Failed /\ raised = "ValueError"
     /\ \/ Len(iter1_inputs) # Len(iter2_inputs)
        \/ Len(iter1_outputs) # Len(Unmarked(iter2_outputs))) =>
        /\ recorder.active_graph_node = origin.active_graph_node
        /\ recorder.in_loop = origin.in_loop

\* C36: a Recorder._add_edge call that raises ValueError leaves the active
\* graph unchanged: no node is registered, nothing is added to the graph's
\* boundary-input set and no edge is added, also when the graph auto-admits
\* missing Variables and the target node is the unregistered one.
C36_FailedAddEdgeLeavesGraph ==
    (edge_call.name = "add_edge" /\ edge_call.raised = "ValueError") =>
        /\ active_graph.node_table = edge_call.before.node_table
        /\ active_graph.inputs = edge_call.before.inputs
        /\ active_graph.edges = edge_call.before.edges

\* the number of ancestors of namespace n
RECURSIVE Depth(_, _)
Depth(tree, n) == IF tree[n].parent = NoParent THEN 0 ELSE 1 + Depth(tree, tree[n].parent)

\* C37: after any sequence of _enter_subgraph, _exit_subgraph,
\* _enter_namespace and _exit_namespace calls on a Recorder (balanced or not,
\* including calls that raise), active_graph_node is a node of graph_tree,
\* active_graph is that node's value, active_namespace is a node of
\* namespace_tree, and hierarchy equals the depth of active_namespace and is
\* never negative.
C37_RecorderPointersValid ==
    \A r \in Recorders :
        LET rec == ns_recorders[r]
        IN /\ rec.active_graph_node \in DOMAIN rec.graph_tree
           /\ rec.active_graph = rec.active_graph_node
           /\ rec.active_namespace \in DOMAIN rec.namespace_tree
           /\ rec.hierarchy = Depth(rec.namespace_tree, rec.active_namespace)
           /\ rec.hierarchy >= 0

\* C38: after any sequence of namespace entries, exits and _set_namespace
\* calls, a node appears in the nodes list of a Namespace only if that
\* Namespace was the active namespace when the node was registered: nodes
\* registered in one namespace never appear in the nodes list of a sibling,
\* parent or child namespace, nor in a namespace of another Recorder.
C38_NodesOnlyInTheirNamespace ==
    \A r \in Recorders :
        \A n \in DOMAIN ns_recorders[r].namespace_tree :
            \A x \in Range(ns_lists[ns_recorders[r].namespace_tree[n].nodes]) :
                node_namespace[x] = <<r, n>>

\* C39: if BracketedSearch.add_state or GaussSeidel.add_state raises because
\* an argument is invalid (bracket not a 2-tuple, bracket element of wrong
\* type or shape, state_update not a Variable, initial value of wrong
\* shape), the solver's registered set of (state, residual) pairs and its
\* per-state metadata are the same as before the call.
C39_FailedAddStateLeavesSolver ==
    add_state_call.raised # "" =>
        /\ solver.state_to_residual_map = add_state_call.before.state_to_residual_map
        /\ solver.state_metadata = add_state_call.before.state_metadata

\* C40: whenever the search stops because its convergence check succeeded,
\* the residual evaluated at the state values it returns is within the
\* tolerance for every element, in the inline solve (states left in place)
\* and in the backend solve (states returned), and the two solves return the
\* same states for the same problem.
C40_ReturnedStatesWithinTolerance ==
    LET tolerance == [j \in Elems |-> problem.tolerance]
        inline_converged == solve_pc = "done" /\ converged
        jax_converged ==
            IF jax_states = <<>> THEN FALSE
            ELSE CheckRunTimeTolerance(jax_states[1].r_update, tolerance)
    IN /\ inline_converged =>
              CheckRunTimeTolerance(Residual(problem, state_value), tolerance)
       /\ jax_converged =>
              CheckRunTimeTolerance(Residual(problem, jax_states[1].states), tolerance)
       /\ (inline_converged /\ jax_converged) => jax_states[1].states = state_value
====